---- MODULE Spec2Model ----
(***************************************************************************)
(* Feature normalisation of vi_api_client (src/src/vi_api_client/models.py) *)
(* as a state machine: a raw feature record (the JSON object of the API)    *)
(* is parsed by Feature.from_api, flattened by Feature.expand, and the      *)
(* flat features' value and unit properties are read (Spec). Further      *)
(* specifications: SpecWrite, a call of Client.execute_command (api.py);   *)
(* SpecUpdate, concurrent calls of Client.update_device and a reader of a  *)
(* Device; SpecMock, MockViClient.get_features (mock_client.py);           *)
(* SpecDevice, Device.get_feature and Device.features_flat; SpecCli,       *)
(* setup_client_context (cli.py); SpecCmd, cmd_set and cmd_exec (cli.py);  *)
(* SpecCalls, calls of execute_command in a row; SpecStatus,               *)
(* Client.get_full_installation_status (api.py).                           *)
(*                                                                         *)
(* JSON / Python values are tagged records, so that isinstance() and       *)
(* equality of values of different types are defined:                       *)
(*   None -> Null, bool -> Bool(b), int/float -> Num(n), str -> Str(s),     *)
(*   list -> List(seq), dict -> Map(f) with f a function on its keys.       *)
(* Python strings are TLA+ strings (Len, \o and SubSeq act on them).        *)
(***************************************************************************)
EXTENDS Integers, Sequences, FiniteSets, TLC

VARIABLES
    data,       \* the raw record handed to Feature.from_api (a Python dict)
    feature,    \* the Feature built by from_api (NoFeature before)
    flat,       \* the list returned by feature.expand()
    read,       \* value and unit read from each flat feature
    pc,         \* "raw" -> "parsed" -> "expanded" -> "read", or "raised"
    exc,        \* the exception that ended the run, "none" otherwise
    wfeature,   \* the Feature handed to Client.execute_command
    wargs,      \* command_name, params and kwargs of the call (NoCall before)
    posts,      \* the requests connector.post has been called with
    wpc,        \* "idle" -> "posted" -> "returned", or "raised"
    wexc,       \* the error the call raised (NoError otherwise)
    heap,       \* the Device objects created so far; a reference is an index
    server,     \* the version of the device's features the API serves
    tasks,      \* per task: its call of Client.update_device
    reader,     \* a reader iterating over the features of a Device it holds
    mdata,      \* the fixture of the MockViClient: {"data": [...]}
    margs,      \* only_enabled and feature_names of the get_features call
    mret,       \* the list MockViClient.get_features returned
    dev,        \* a Device with its features
    dcall,      \* the last call on the Device: its name, argument and result
    cargs,      \* the arguments of setup_client_context (cli.py)
    cworld,     \* the gateways and devices the API lists
    crequests,  \* the client calls setup_client_context has made
    cpc,        \* "start" -> "get_gateways" -> "get_devices" -> "yielded" / "raised"
    cctx,       \* the CLIContext it yielded (NoContext before)
    cexc,       \* the error that ended it (NoError otherwise)
    xargs,      \* the command line of `set` or `exec` (cli.py)
    xserved,    \* the features get_features returns for the feature name
    xparams,    \* cmd_exec: the dict parse_cli_params returned
    xwrites,    \* the writes dispatched: set_feature calls and raw POSTs
    xpc,        \* "start" -> "fetch" -> "write" -> "done", or "failed"
    kdefault,   \* the dict that is the default of execute_command's `params`
    kcaller,    \* the dict a caller keeps and passes as `params`
    klog,       \* the calls of execute_command made so far, in order
    sargs,      \* installation_id and only_enabled of get_full_installation_status
    sworld,     \* the gateways the API lists and the device ids of each
    sreq,       \* the requests the call has made, in order
    sloop,      \* its position: pc, gateway index, devices of it, device index
    sall,       \* all_devices
    sret        \* what the call returned (NoStatus before, and when it raised)

readvars == <<data, feature, flat, read, pc, exc>>
writevars == <<wfeature, wargs, posts, wpc, wexc>>
updatevars == <<heap, server, tasks, reader>>
mockvars == <<mdata, margs, mret>>
devicevars == <<dev, dcall>>
clivars == <<cargs, cworld, crequests, cpc, cctx, cexc>>
cmdvars == <<xargs, xserved, xparams, xwrites, xpc>>
callvars == <<kdefault, kcaller, klog>>
statusvars == <<sargs, sworld, sreq, sloop, sall, sret>>
extravars == <<devicevars, clivars, cmdvars, callvars, statusvars>>
vars == <<readvars, writevars, updatevars, mockvars, extravars>>

\* No call of execute_command has been made.
NoCall == [command_name |-> "", params |-> <<>>, kwargs |-> <<>>]

\* An error: the exception class, the fixed text of its message, and the
\* parameter names the message lists.
Error(type, msg, names) == [type |-> type, msg |-> msg, names |-> names]
NoError == Error("none", "", {})

\* The actions of the read path leave the rest of the state alone.
ReadPathOnly == UNCHANGED <<writevars, updatevars, mockvars, extravars>>

\* No reader holds a Device.
NoReader == [ref |-> 0, pos |-> 0, seen |-> <<>>]

\* MockViClient.get_features has not been called.
NoMockCall == [called |-> FALSE, only_enabled |-> FALSE, feature_names |-> [t |-> "null"]]

\* No Device exists and no update runs.
UpdateIdle ==
    /\ heap = <<>>
    /\ server = 0
    /\ tasks = <<>>
    /\ reader = NoReader

\* The mock client at rest.
MockIdle ==
    /\ mdata = <<>>
    /\ margs = NoMockCall
    /\ mret = <<>>

\* No method of a Device has been called.
NoDeviceCall == [op |-> "none", name |-> "", result |-> <<>>]

\* No Device is looked at.
DeviceIdle ==
    /\ dev = <<>>
    /\ dcall = NoDeviceCall

\* No CLIContext has been yielded.
NoContext == [t |-> "null"]

\* setup_client_context has not been entered.
CliIdle ==
    /\ cargs = <<>>
    /\ cworld = <<>>
    /\ crequests = <<>>
    /\ cpc = "idle"
    /\ cctx = NoContext
    /\ cexc = NoError

\* Neither cmd_set nor cmd_exec has been entered.
CmdIdle ==
    /\ xargs = <<>>
    /\ xserved = <<>>
    /\ xparams = <<>>
    /\ xwrites = <<>>
    /\ xpc = "idle"

\* No sequence of execute_command calls is under way.
CallsIdle ==
    /\ kdefault = <<>>
    /\ kcaller = <<>>
    /\ klog = <<>>

\* get_full_installation_status has returned nothing.
NoStatus == [t |-> "null"]

\* get_full_installation_status has not been called.
StatusIdle ==
    /\ sargs = <<>>
    /\ sworld = <<>>
    /\ sreq = <<>>
    /\ sloop = <<>>
    /\ sall = <<>>
    /\ sret = NoStatus

\* The subjects of the further specifications at rest.
ExtraIdle == DeviceIdle /\ CliIdle /\ CmdIdle /\ CallsIdle /\ StatusIdle

----------------------------------------------------------------------------
(* Python values *)

Null == [t |-> "null"]
Bool(b) == [t |-> "bool", b |-> b]
Num(n) == [t |-> "num", n |-> n]
Str(s) == [t |-> "str", s |-> s]
List(xs) == [t |-> "list", items |-> xs]
Map(f) == [t |-> "map", m |-> f]

\* isinstance(v, dict)
IsDict(v) == v.t = "map"

\* `k in d` for a dict d
HasKey(d, k) == k \in DOMAIN d.m

\* dict.get(k, default) on the function f of a dict
Get(f, k, default) == IF k \in DOMAIN f THEN f[k] ELSE default

\* Python truthiness of a value: `not v` is ~Truthy(v)
Truthy(v) ==
    CASE v.t = "null" -> FALSE
      [] v.t = "bool" -> v.b
      [] v.t = "num" -> v.n # 0
      [] v.t = "str" -> v.s # ""
      [] v.t = "list" -> v.items # <<>>
      [] v.t = "map" -> DOMAIN v.m # {}

----------------------------------------------------------------------------
(* Python str operations *)

\* The characters the model's keys and names use, in ascending code point
\* order ('.' < digits < upper case < lower case).
CodePoints == ".0123456789ABCDEFGHIJKLMNOPQRSTUVWXYZabcdefghijklmnopqrstuvwxyz"

\* Position of each character in code point order.
OrdTable ==
    LET Char(i) == SubSeq(CodePoints, i, i)
    IN  [c \in {Char(i) : i \in 1..Len(CodePoints)} |->
            CHOOSE i \in 1..Len(CodePoints) : Char(i) = c]

Ord(c) == OrdTable[c]

\* a < b on str: lexicographic by code point, a proper prefix is smaller.
RECURSIVE StrLessFrom(_, _, _)
StrLessFrom(a, b, i) ==
    IF i > Len(b) THEN FALSE
    ELSE IF i > Len(a) THEN TRUE
    ELSE LET ca == Ord(SubSeq(a, i, i))
             cb == Ord(SubSeq(b, i, i))
         IN  IF ca < cb THEN TRUE
             ELSE IF ca > cb THEN FALSE
             ELSE StrLessFrom(a, b, i + 1)

StrLess(a, b) == StrLessFrom(a, b, 1)

\* s.endswith(suffix)
EndsWith(s, suffix) ==
    /\ Len(s) >= Len(suffix)
    /\ SubSeq(s, Len(s) - Len(suffix) + 1, Len(s)) = suffix

\* sorted(S) for a set of str
RECURSIVE sorted(_)
sorted(S) ==
    IF S = {} THEN <<>>
    ELSE LET least == CHOOSE x \in S : \A y \in S \ {x} : StrLess(x, y)
         IN  <<least>> \o sorted(S \ {least})

----------------------------------------------------------------------------
(* models.py: module constants *)

\* Mutant: "status" is tried before "value".
VALUE_PRIORITY_KEYS_status_first ==
    <<"status", "value", "active", "enabled", "strength", "entries",
      "day", "week", "month", "year">>

VALUE_PRIORITY_KEYS ==
    <<"value", "status", "active", "enabled", "strength", "entries",
      "day", "week", "month", "year">>

VALUE_PRIORITY_SET == {VALUE_PRIORITY_KEYS[i] : i \in DOMAIN VALUE_PRIORITY_KEYS}

\* Mutant: "unit" counts as a data key.
ignore_keys_without_unit == {"type", "displayValue", "links"}

ignore_keys == {"unit", "type", "displayValue", "links"}

----------------------------------------------------------------------------
(* models.py: Command and Feature *)

\* Command.from_api(name, data)
Command_from_api(name, d) ==
    [name |-> name,
     uri |-> Get(d.m, "uri", Str("")),
     is_executable |-> Get(d.m, "isExecutable", Bool(TRUE)),
     params |-> Get(d.m, "params", Map(<<>>))]

\* Feature.from_api(data): every field is taken over unchecked.
Feature_from_api(d) ==
    [name |-> Get(d, "feature", Str("")),
     properties |-> Get(d, "properties", Map(<<>>)),
     is_enabled |-> Get(d, "isEnabled", Bool(FALSE)),
     is_ready |-> Get(d, "isReady", Bool(FALSE)),
     commands |-> LET c == Get(d, "commands", Map(<<>>))
                  IN  [n \in DOMAIN c.m |-> Command_from_api(n, c.m[n])]]

\* Mutant: the priority list is scanned from its end.
primary_data_last(self) ==
    IF ~Truthy(self.properties) THEN Null
    ELSE LET present == {i \in DOMAIN VALUE_PRIORITY_KEYS :
                            HasKey(self.properties, VALUE_PRIORITY_KEYS[i])}
         IN  IF present = {} THEN Null
             ELSE LET last == CHOOSE i \in present : \A j \in present : i >= j
                  IN  self.properties.m[VALUE_PRIORITY_KEYS[last]]

\* Feature._primary_data, for a Feature whose properties is a dict (every
\* Feature expand() returns): the entry under the first priority key present.
primary_data(self) ==
    IF ~Truthy(self.properties) THEN Null
    ELSE LET present == {i \in DOMAIN VALUE_PRIORITY_KEYS :
                            HasKey(self.properties, VALUE_PRIORITY_KEYS[i])}
         IN  IF present = {} THEN Null
             ELSE LET first == CHOOSE i \in present : \A j \in present : i <= j
                  IN  self.properties.m[VALUE_PRIORITY_KEYS[first]]

\* Feature.value
value(self) ==
    LET d == primary_data(self)
    IN  IF d = Null THEN Null
        ELSE IF IsDict(d) /\ HasKey(d, "value") THEN d.m["value"]
        ELSE d

\* Feature.unit
unit(self) ==
    LET d == primary_data(self)
    IN  IF IsDict(d) THEN Get(d.m, "unit", Null)
        ELSE IF HasKey(self.properties, "unit") THEN self.properties.m["unit"]
        ELSE Null

\* Mutant: no redundant-suffix elimination.
sub_feature_name_no_dedup(name, suffix) == name \o "." \o suffix

\* _create_sub_feature, "Clean name generation": the name of the sub-feature
\* of the Feature named `name` for the key `suffix`.
sub_feature_name(name, suffix) ==
    IF EndsWith(name, "." \o suffix) THEN name ELSE name \o "." \o suffix

\* _create_sub_feature, normalisation of val_obj to a dict with a 'value' key.
\* new_props is val_obj itself or a fresh dict; the unit is written only into
\* the fresh dict (val_obj, holding "unit", never satisfies the condition).
normalized_props(val_obj) ==
    LET new_props == IF IsDict(val_obj) /\ HasKey(val_obj, "value")
                     THEN val_obj
                     ELSE Map("value" :> val_obj)
    IN  IF /\ IsDict(val_obj)
           /\ HasKey(val_obj, "unit")
           /\ ~HasKey(new_props, "unit")
        THEN Map(("unit" :> val_obj.m["unit"]) @@ new_props.m)
        ELSE new_props

\* Feature._create_sub_feature(suffix, val_obj), for a Feature named by a str.
create_sub_feature(self, suffix, val_obj) ==
    [name |-> Str(sub_feature_name(self.name.s, suffix)),
     properties |-> normalized_props(val_obj),
     is_enabled |-> self.is_enabled,
     is_ready |-> self.is_ready,
     commands |-> <<>>]

\* expand: the data keys of a dict that iterates its keys in `order`.
data_keys_of(order) == {order[i] : i \in DOMAIN order} \ ignore_keys

\* Mutant: the subset test the wrong way round.
is_scalar_reversed(data_keys) == VALUE_PRIORITY_SET \subseteq data_keys

\* expand: the scalar check.
is_scalar(data_keys) == data_keys \subseteq VALUE_PRIORITY_SET

\* Mutant: the loop visits the keys in the dict's own order, unsorted.
iteration_keys_unsorted(data_keys, order) ==
    LET IsDataKey(k) == k \in data_keys
    IN  SelectSeq(order, IsDataKey)

\* expand: the keys in the order the loop visits them, `sorted(data_keys)`.
iteration_keys(data_keys, order) == sorted(data_keys)

\* Feature.expand(), for a Feature whose properties is a dict that iterates
\* its keys in `order`.
expand(self, order) ==
    LET data_keys == data_keys_of(order)
        keys == iteration_keys(data_keys, order)
    IN  IF data_keys = {} THEN <<>>
        ELSE IF is_scalar(data_keys) THEN <<self>>
        ELSE [i \in 1..Len(keys) |->
                 create_sub_feature(self, keys[i], self.properties.m[keys[i]])]

\* _create_sub_feature: new_props is the object val_obj itself, no copy, when
\* val_obj is a dict with a "value" key; it is a new dict otherwise.
new_props_is_val_obj(val_obj) == IsDict(val_obj) /\ HasKey(val_obj, "value")

\* Mutant: the unit is stored whenever new_props has none.
unit_stored_unguarded(val_obj) ==
    IsDict(val_obj) /\ ~HasKey(normalized_props(val_obj), "unit")

\* _create_sub_feature: whether `new_props["unit"] = val_obj["unit"]` runs.
\* new_props before the assignment is val_obj or {"value": val_obj}.
unit_stored(val_obj) ==
    /\ IsDict(val_obj)
    /\ HasKey(val_obj, "unit")
    /\ ~HasKey(IF new_props_is_val_obj(val_obj) THEN val_obj ELSE Map("value" :> val_obj),
               "unit")

\* The object val_obj after _create_sub_feature(suffix, val_obj): the item
\* assignment reaches it when new_props is val_obj.
val_obj_after(val_obj) ==
    IF new_props_is_val_obj(val_obj) /\ unit_stored(val_obj)
    THEN Map(("unit" :> Get(val_obj.m, "unit", Null)) @@ val_obj.m)
    ELSE val_obj

\* The Feature expand() was called on, after the call: the entries handed
\* to _create_sub_feature are the objects in self.properties.
self_after_expand(self, order) ==
    LET data_keys == data_keys_of(order)
    IN  IF data_keys = {} \/ is_scalar(data_keys) THEN self
        ELSE [self EXCEPT !.properties =
                Map([k \in DOMAIN self.properties.m |->
                        IF k \in data_keys
                        THEN val_obj_after(self.properties.m[k])
                        ELSE self.properties.m[k]])]

----------------------------------------------------------------------------
(* The raw records the run draws from *)

\* Largest number of keys of a record's properties.
MaxKeys == 2

\* A weekly schedule: weekday -> list of {start, end} slots.
Schedule ==
    Map(("mon" :> List(<<Map(("start" :> Str("06:00")) @@ ("end" :> Str("22:00")))>>))
        @@ ("tue" :> List(<<>>)) @@ ("wed" :> List(<<>>)))

\* A history array.
History == List(<<Num(1), Num(2)>>)

\* Property keys: priority keys, a display-only key, and keys outside both
\* (one of them with a dot in it).
KeyUniverse ==
    {"value", "status", "active", "entries", "unit",
     "slope", "shift", "name", "0.name"}

\* The entries a key may carry: raw scalars, {value, unit, type} entries,
\* entries with further keys, entries without value, lists, maps and null.
Entries(k) ==
    CASE k = "value" ->
            {Num(10),
             Map(("value" :> Num(20)) @@ ("unit" :> Str("kelvin"))),
             Map("value" :> Num(30)),
             History}
      [] k = "status" -> {Str("off"), Map("value" :> Str("ok"))}
      [] k = "active" ->
            {Bool(TRUE), Map(("value" :> Bool(FALSE)) @@ ("type" :> Str("boolean")))}
      [] k = "entries" ->
            {Schedule, Map(("value" :> Schedule) @@ ("type" :> Str("Schedule")))}
      [] k = "unit" -> {Str("celsius")}
      [] k = "slope" ->
            {Num(14), Map(("unit" :> Str("bar")) @@ ("min" :> Num(0))), Null}
      [] k = "shift" ->
            {Num(0), Map(("value" :> Num(5)) @@ ("unit" :> Str("kelvin"))),
             Map(("value" :> Num(5)) @@ ("min" :> Num(0)) @@ ("max" :> Num(40)))}
      [] k = "name" -> {Str("circuit")}
      [] k = "0.name" -> {Str("alias")}

\* All dicts with exactly the keys S.
RECURSIVE MapsOver(_)
MapsOver(S) ==
    IF S = {} THEN {<<>>}
    ELSE LET k == CHOOSE x \in S : TRUE
         IN  {(k :> e) @@ f : e \in Entries(k), f \in MapsOver(S \ {k})}

PropertyMaps ==
    UNION {MapsOver(S) : S \in {T \in SUBSET KeyUniverse : Cardinality(T) <= MaxKeys}}

\* "properties": missing, null, not a map, or a map.
PropertyOptions ==
    {<<>>, "properties" :> Null, "properties" :> History}
        \cup {"properties" :> Map(f) : f \in PropertyMaps}

NameOptions ==
    {<<>>, "feature" :> Str("heating.curve"), "feature" :> Str("circuits.0.name")}

FlagOptions ==
    {<<>>, ("isEnabled" :> Bool(TRUE)) @@ ("isReady" :> Bool(FALSE))}

CommandOptions ==
    {<<>>,
     "commands" :> Map("setCurve" :>
        Map(("uri" :> Str("/commands/setCurve"))
            @@ ("isExecutable" :> Bool(TRUE))
            @@ ("params" :> Map("slope" :> Map("type" :> Str("number"))))))}

\* A command with the single parameter p.
SingleParamCommand(uri, p) ==
    Map(("uri" :> Str(uri)) @@ ("isExecutable" :> Bool(TRUE))
        @@ ("params" :> Map(p :> Map(("type" :> Str("number"))
                                      @@ ("required" :> Bool(TRUE))))))

\* The hysteresis record: three properties, and one single-parameter
\* command for each of them.
HysteresisRecord ==
    ("feature" :> Str("heating.dhw.temperature.hysteresis"))
    @@ ("isEnabled" :> Bool(TRUE)) @@ ("isReady" :> Bool(TRUE))
    @@ ("properties" :> Map(
            ("value" :> Map(("value" :> Num(5)) @@ ("unit" :> Str("kelvin"))))
            @@ ("switchOnValue" :> Map(("value" :> Num(4)) @@ ("unit" :> Str("kelvin"))))
            @@ ("switchOffValue" :> Map(("value" :> Num(6)) @@ ("unit" :> Str("kelvin"))))))
    @@ ("commands" :> Map(
            ("setHysteresis" :> SingleParamCommand("/commands/setHysteresis", "value"))
            @@ ("setHysteresisSwitchOnValue" :>
                    SingleParamCommand("/commands/setHysteresisSwitchOnValue", "switchOnValue"))
            @@ ("setHysteresisSwitchOffValue" :>
                    SingleParamCommand("/commands/setHysteresisSwitchOffValue", "switchOffValue"))))

RawRecords ==
    {n @@ fl @@ c @@ p :
        n \in NameOptions, fl \in FlagOptions, c \in CommandOptions, p \in PropertyOptions}
    \cup {HysteresisRecord}

\* The orders in which a dict with keys S may iterate them.
Orders(S) ==
    {o \in [1..Cardinality(S) -> S] : \A i, j \in DOMAIN o : i # j => o[i] # o[j]}

\* The keys of a record's properties, when that is a dict.
PropertyKeys(d) ==
    LET p == Get(d, "properties", Map(<<>>))
    IN  IF IsDict(p) THEN DOMAIN p.m ELSE {}

NoFeature == Null

----------------------------------------------------------------------------
(* The run *)

Init ==
    /\ data \in RawRecords
    /\ feature = NoFeature
    /\ flat = <<>>
    /\ read = <<>>
    /\ pc = "raw"
    /\ exc = "none"
    /\ wfeature = NoFeature
    /\ wargs = NoCall
    /\ posts = <<>>
    /\ wpc = "idle"
    /\ wexc = NoError
    /\ UpdateIdle
    /\ MockIdle
    /\ ExtraIdle

\* feature = Feature.from_api(data)
FromApi ==
    /\ pc = "raw"
    /\ feature' = Feature_from_api(data)
    /\ pc' = "parsed"
    /\ UNCHANGED <<data, flat, read, exc>>
    /\ ReadPathOnly

\* flat = feature.expand(); properties.keys() raises AttributeError on a
\* value that is no dict (None, a list). The order in which a dict yields its
\* keys is no part of its value (dict equality ignores it): it is chosen here,
\* where the dict is iterated.
Expand ==
    /\ pc = "parsed"
    /\ \/ /\ IsDict(feature.properties)
          /\ \E order \in Orders(DOMAIN feature.properties.m) :
                /\ flat' = expand(feature, order)
                /\ feature' = self_after_expand(feature, order)
          /\ pc' = "expanded"
          /\ exc' = exc
       \/ /\ ~IsDict(feature.properties)
          /\ flat' = flat
          /\ feature' = feature
          /\ pc' = "raised"
          /\ exc' = "AttributeError"
    /\ UNCHANGED <<data, read>>
    /\ ReadPathOnly

\* The consumer of the flat list reads value and unit of every Feature.
ReadValueUnit ==
    /\ pc = "expanded"
    /\ read' = [i \in 1..Len(flat) |-> [value |-> value(flat[i]), unit |-> unit(flat[i])]]
    /\ pc' = "read"
    /\ UNCHANGED <<data, feature, flat, exc>>
    /\ ReadPathOnly

Next == FromApi \/ Expand \/ ReadValueUnit

Spec == Init /\ [][Next]_vars

----------------------------------------------------------------------------
(* The write path: Client.execute_command (api.py) *)

\* Mutant: the keyword arguments are dropped.
Updated_without_kwargs(d, other) == d

\* d.copy() followed by .update(other): other's entries win.
Updated(d, other) ==
    [k \in DOMAIN d \cup DOMAIN other |-> IF k \in DOMAIN other THEN other[k] ELSE d[k]]

\* The parameters of a command that its definition marks as required.
required_params(spec_params) ==
    {p \in DOMAIN spec_params.m :
        IsDict(spec_params.m[p]) /\ Truthy(Get(spec_params.m[p].m, "required", Bool(FALSE)))}

\* The required parameters the call does not supply.
missing_params(spec_params, params) ==
    required_params(spec_params) \ DOMAIN params

Abs(x) == IF x < 0 THEN -x ELSE x

\* The rounding error of the IEEE 754 double quotient (v - min) / step for
\* the decimal operands v, min, step (given in tenths) with v - min a
\* multiple of step, in units of 2^-52: (0.3 - 0) / 0.1 is
\* 2.9999999999999996, that is 3 - 2 * 2^-52. All aligned operands of the
\* parameter specs below with a rounding error are listed.
QuotientErrorTable ==
    (<<3, 0, 1>> :> (-2))  @@ (<<6, 0, 1>> :> (-4))  @@ (<<7, 0, 1>> :> (-4))
    @@ (<<12, 0, 1>> :> (-8))  @@ (<<3, 2, 1>> :> (-1))  @@ (<<5, 2, 1>> :> (-2))
    @@ (<<6, 2, 1>> :> (-2))  @@ (<<7, 2, 1>> :> (-4))  @@ (<<8, 2, 1>> :> 4)
    @@ (<<9, 2, 1>> :> (-4))  @@ (<<14, 2, 1>> :> (-8))  @@ (<<23, 2, 1>> :> (-16))
    @@ (<<24, 2, 1>> :> (-16))  @@ (<<25, 2, 1>> :> (-16))  @@ (<<26, 2, 1>> :> (-16))
    @@ (<<28, 2, 1>> :> (-16))  @@ (<<29, 2, 1>> :> (-16))  @@ (<<30, 2, 1>> :> (-16))
    @@ (<<31, 2, 1>> :> (-16))  @@ (<<33, 2, 1>> :> (-16))  @@ (<<34, 2, 1>> :> (-16))
    @@ (<<35, 2, 1>> :> (-32))

quotient_error(v, min, step) ==
    IF <<v, min, step>> \in DOMAIN QuotientErrorTable
    THEN QuotientErrorTable[<<v, min, step>>] ELSE 0

\* The tolerance of the step check: 2^-22, as a multiple of 2^-52 and as
\* its inverse.
StepTolerance == 1073741824
StepToleranceInverse == 4194304

\* Mutant: the quotient must be an integer exactly, without tolerance.
step_aligned_exactly(v, min, step) ==
    (v - min) % step = 0 /\ quotient_error(v, min, step) = 0

\* Step alignment: (v - min) / step is within the tolerance of an integer.
step_aligned(v, min, step) ==
    LET r == (v - min) % step
        nearest == IF r <= step - r THEN r ELSE step - r
    IN  IF r = 0 THEN Abs(quotient_error(v, min, step)) <= StepTolerance
        ELSE nearest * StepToleranceInverse <= step

\* The numeric constraints of parameter p: min <= v <= max and step
\* alignment counted from min (from 0 without min).
numeric_error(p, spec, v) ==
    IF "min" \in DOMAIN spec /\ v < spec["min"].n
    THEN Error("ValueError", "is less than the minimum", {p})
    ELSE IF "max" \in DOMAIN spec /\ v > spec["max"].n
    THEN Error("ValueError", "is greater than the maximum", {p})
    ELSE IF "stepping" \in DOMAIN spec
            /\ ~step_aligned(v, Get(spec, "min", Num(0)).n, spec["stepping"].n)
    THEN Error("ValueError", "does not align with step", {p})
    ELSE NoError

\* re.fullmatch(pattern, s) for the anchored patterns ^[lo-hi]+$: s is
\* not empty and all its characters lie between lo and hi.
pattern_matches(pattern, s) ==
    LET lo == Ord(SubSeq(pattern, 3, 3))
        hi == Ord(SubSeq(pattern, 5, 5))
    IN  /\ Len(s) >= 1
        /\ \A i \in 1..Len(s) :
              lo <= Ord(SubSeq(s, i, i)) /\ Ord(SubSeq(s, i, i)) <= hi

\* The string constraints of parameter p: minLength <= len(v) <= maxLength
\* and a full match of pattern.
string_error(p, spec, v) ==
    IF "minLength" \in DOMAIN spec /\ Len(v) < spec["minLength"].n
    THEN Error("ValueError", "is shorter than minLength", {p})
    ELSE IF "maxLength" \in DOMAIN spec /\ Len(v) > spec["maxLength"].n
    THEN Error("ValueError", "is longer than maxLength", {p})
    ELSE IF "pattern" \in DOMAIN spec /\ ~pattern_matches(spec["pattern"].s, v)
    THEN Error("ValueError", "does not match pattern", {p})
    ELSE NoError

\* The enum constraint of parameter p: v is one of options, when present.
enum_error(p, spec, v) ==
    IF "options" \in DOMAIN spec
        /\ \A i \in DOMAIN spec["options"].items : spec["options"].items[i] # v
    THEN Error("ValueError", "is not one of the options", {p})
    ELSE NoError

\* The constraints of parameter p on the value v, by the type of v.
constraint_error(p, spec, v) ==
    IF v.t = "num" /\ numeric_error(p, spec, v.n) # NoError
    THEN numeric_error(p, spec, v.n)
    ELSE IF v.t = "str" /\ string_error(p, spec, v.s) # NoError
    THEN string_error(p, spec, v.s)
    ELSE enum_error(p, spec, v)

\* validate_command_params(name, spec_params, params): NoError when the
\* parameters pass, the error raised otherwise: the missing required
\* parameters, or the first violated constraint.
validate_command_params(name, spec_params, params) ==
    IF missing_params(spec_params, params) # {}
    THEN Error("ValueError", "Missing required parameters",
               missing_params(spec_params, params))
    ELSE LET checked == sorted(DOMAIN params \cap DOMAIN spec_params.m)
             failing == {i \in DOMAIN checked :
                            constraint_error(checked[i], spec_params.m[checked[i]].m,
                                             params[checked[i]]) # NoError}
         IN  IF failing = {} THEN NoError
             ELSE LET first == CHOOSE i \in failing : \A j \in failing : i <= j
                  IN  constraint_error(checked[first], spec_params.m[checked[first]].m,
                                       params[checked[first]])

\* Mutant: validate checks nothing.
Command_validate_noop(cmd, params) == NoError

\* Command.validate(params)
Command_validate(cmd, params) ==
    validate_command_params(cmd.name, cmd.params, params)

\* What a call of execute_command does before it awaits the transport: the
\* error it raises, or the request it hands to connector.post.
Raises(e) == [raised |-> TRUE, error |-> e, uri |-> "", body |-> <<>>]
Posts(uri, body) == [raised |-> FALSE, error |-> NoError, uri |-> uri, body |-> body]

\* Mutant: the isExecutable check is left out.
execute_command_unguarded(self_feature, command_name, params, kwargs) ==
    LET final_params == Updated(params, kwargs)
    IN  IF command_name \notin DOMAIN self_feature.commands
        THEN Raises(Error("ValueError", "not found in feature", {}))
        ELSE LET cmd == self_feature.commands[command_name]
             IN  IF ~Truthy(cmd.uri)
                 THEN Raises(Error("ValueError", "has no URI definition.", {}))
                 ELSE IF Command_validate(cmd, final_params) # NoError
                 THEN Raises(Command_validate(cmd, final_params))
                 ELSE Posts(cmd.uri.s, final_params)

\* Mutant: cmd.validate is not called.
execute_command_unvalidated(self_feature, command_name, params, kwargs) ==
    LET final_params == Updated(params, kwargs)
    IN  IF command_name \notin DOMAIN self_feature.commands
        THEN Raises(Error("ValueError", "not found in feature", {}))
        ELSE LET cmd == self_feature.commands[command_name]
             IN  IF ~Truthy(cmd.is_executable)
                 THEN Raises(Error("ValueError",
                                   "is currently not executable (isExecutable=False).", {}))
                 ELSE IF ~Truthy(cmd.uri)
                 THEN Raises(Error("ValueError", "has no URI definition.", {}))
                 ELSE Posts(cmd.uri.s, final_params)

\* Mutant: the uri is checked before isExecutable.
execute_command_uri_first(self_feature, command_name, params, kwargs) ==
    LET final_params == Updated(params, kwargs)
    IN  IF command_name \notin DOMAIN self_feature.commands
        THEN Raises(Error("ValueError", "not found in feature", {}))
        ELSE LET cmd == self_feature.commands[command_name]
             IN  IF ~Truthy(cmd.uri)
                 THEN Raises(Error("ValueError", "has no URI definition.", {}))
                 ELSE IF ~Truthy(cmd.is_executable)
                 THEN Raises(Error("ValueError",
                                   "is currently not executable (isExecutable=False).", {}))
                 ELSE IF Command_validate(cmd, final_params) # NoError
                 THEN Raises(Command_validate(cmd, final_params))
                 ELSE Posts(cmd.uri.s, final_params)

\* Client.execute_command(feature, command_name, params, **kwargs) up to
\* its await.
execute_command(self_feature, command_name, params, kwargs) ==
    LET final_params == Updated(params, kwargs)
    IN  IF command_name \notin DOMAIN self_feature.commands
        THEN Raises(Error("ValueError", "not found in feature", {}))
        ELSE LET cmd == self_feature.commands[command_name]
             IN  IF ~Truthy(cmd.is_executable)
                 THEN Raises(Error("ValueError",
                                   "is currently not executable (isExecutable=False).", {}))
                 ELSE IF ~Truthy(cmd.uri)
                 THEN Raises(Error("ValueError", "has no URI definition.", {}))
                 ELSE IF Command_validate(cmd, final_params) # NoError
                 THEN Raises(Command_validate(cmd, final_params))
                 ELSE Posts(cmd.uri.s, final_params)

\* Inputs of the write path. Numbers are held in tenths: Num(14) is 1.4.
NumberParam(required, min, max, stepping) ==
    Map(("required" :> Bool(required)) @@ ("type" :> Str("number"))
        @@ ("min" :> Num(min)) @@ ("max" :> Num(max)) @@ ("stepping" :> Num(stepping)))

\* The parameters of setCurve: slope in 0.2 .. 3.5 by 0.1, shift in
\* -13 .. 40 by 1, and an optional mode.
SetCurveParams ==
    Map(("slope" :> NumberParam(TRUE, 2, 35, 1))
        @@ ("shift" :> NumberParam(TRUE, -130, 400, 10))
        @@ ("mode" :> Map(("required" :> Bool(FALSE)) @@ ("type" :> Str("string")))))

\* The parameters of set, all optional: p in 10 .. 30 by 0.5 and q in
\* 0 .. 1 by 0.1.
SetParams ==
    Map(("p" :> NumberParam(FALSE, 100, 300, 5))
        @@ ("q" :> NumberParam(FALSE, 0, 10, 1)))

\* The parameters of setName, all optional: a name of 2 to 4 lower case
\* letters and a program out of two.
SetNameParams ==
    Map(("name" :> Map(("required" :> Bool(FALSE)) @@ ("type" :> Str("string"))
                       @@ ("minLength" :> Num(2)) @@ ("maxLength" :> Num(4))
                       @@ ("pattern" :> Str("^[a-z]+$"))))
        @@ ("program" :> Map(("required" :> Bool(FALSE)) @@ ("type" :> Str("string"))
                             @@ ("options" :> List(<<Str("eco"), Str("comfort")>>)))))

UriOptions ==
    {<<>>, "uri" :> Str(""), "uri" :> Str("https://api.vi/commands/setCurve")}

ExecutableOptions ==
    {<<>>, "isExecutable" :> Bool(TRUE), "isExecutable" :> Bool(FALSE)}

\* Records with the properties slope and shift and the commands setCurve
\* (any uri, any isExecutable), simpleCmd (no parameters), set and setName.
WriteRecords ==
    {("feature" :> Str("heating.curve"))
     @@ ("properties" :> Map(("slope" :> Map("value" :> Num(14)))
                             @@ ("shift" :> Map("value" :> Num(0)))))
     @@ ("commands" :> Map(
            ("setCurve" :> Map(u @@ x @@ ("params" :> SetCurveParams)))
            @@ ("simpleCmd" :> Map(("uri" :> Str("https://api.vi/commands/simpleCmd"))
                                   @@ ("params" :> Map(<<>>))))
            @@ ("set" :> Map(("uri" :> Str("https://api.vi/commands/set"))
                             @@ ("params" :> SetParams)))
            @@ ("setName" :> Map(("uri" :> Str("https://api.vi/commands/setName"))
                                 @@ ("params" :> SetNameParams))))) :
        u \in UriOptions, x \in ExecutableOptions}

CommandNames == {"setCurve", "simpleCmd", "invalidCmd"}

\* The values a caller passes for a parameter.
ParamValues(p) ==
    CASE p = "slope" -> {Num(12), Num(14)}
      [] p = "shift" -> {Num(50)}
      [] p = "mode" -> {Str("eco")}
      [] p = "p" -> {Num(95), Num(100), Num(105), Num(107), Num(110), Num(300), Num(305)}
      [] p = "q" -> {Num(0), Num(3), Num(7), Num(10), Num(11)}
      [] p = "name" -> {Str("a"), Str("ab"), Str("Ab"), Str("abcd"), Str("abcde")}
      [] p = "program" -> {Str("eco"), Str("boost")}

RECURSIVE ParamsOver(_)
ParamsOver(S) ==
    IF S = {} THEN {<<>>}
    ELSE LET k == CHOOSE x \in S : TRUE
         IN  {(k :> v) @@ f : v \in ParamValues(k), f \in ParamsOver(S \ {k})}

\* The dicts a caller passes as params or as keyword arguments.
ParamDicts == UNION {ParamsOver(S) : S \in SUBSET {"slope", "shift", "mode"}}

\* The calls: any command name with parameters of setCurve, and set and
\* setName with parameters of their own.
Calls ==
    {[command_name |-> c, params |-> ps, kwargs |-> kw] :
        c \in CommandNames, ps \in ParamDicts, kw \in ParamDicts}
    \cup {[command_name |-> "set", params |-> <<>>, kwargs |-> kw] :
            kw \in UNION {ParamsOver(S) : S \in SUBSET {"p", "q"}}}
    \cup {[command_name |-> "setName", params |-> ps, kwargs |-> kw] :
            ps \in ParamsOver({}) \cup ParamsOver({"name"}),
            kw \in ParamsOver({}) \cup ParamsOver({"program"})}

\* The read path at rest.
ReadIdle ==
    /\ data = <<>>
    /\ feature = NoFeature
    /\ flat = <<>>
    /\ read = <<>>
    /\ pc = "raw"
    /\ exc = "none"

InitWrite ==
    /\ ExtraIdle
    /\ ReadIdle
    /\ wfeature \in {Feature_from_api(r) : r \in WriteRecords}
    /\ wargs = NoCall
    /\ posts = <<>>
    /\ wpc = "idle"
    /\ wexc = NoError
    /\ UpdateIdle
    /\ MockIdle

\* await client.execute_command(feature, command_name, params, **kwargs),
\* up to the await of connector.post.
ExecuteCommand ==
    /\ wpc = "idle"
    /\ \E call \in Calls :
          LET r == execute_command(wfeature, call.command_name, call.params, call.kwargs)
          IN  /\ wargs' = call
              /\ IF r.raised
                 THEN /\ wpc' = "raised"
                      /\ wexc' = r.error
                      /\ posts' = posts
                 ELSE /\ wpc' = "posted"
                      /\ wexc' = wexc
                      /\ posts' = Append(posts, [uri |-> r.uri, body |-> r.body])
    /\ UNCHANGED <<wfeature, readvars, updatevars, mockvars, extravars>>

\* connector.post returns the response, or raises a transport error.
PostCompletes ==
    /\ wpc = "posted"
    /\ \/ /\ wpc' = "returned"
          /\ wexc' = wexc
       \/ /\ wpc' = "raised"
          /\ wexc' = Error("ViConnectionError", "", {})
    /\ UNCHANGED <<wfeature, wargs, posts, readvars, updatevars, mockvars, extravars>>

NextWrite == ExecuteCommand \/ PostCompletes

SpecWrite == InitWrite /\ [][NextWrite]_vars

----------------------------------------------------------------------------
(* Refreshing a Device: Client.update_device (api.py) *)

NumTasks == 2
MaxVersion == 2

Tasks == 1..NumTasks

\* The write path at rest.
WriteIdle ==
    /\ wfeature = NoFeature
    /\ wargs = NoCall
    /\ posts = <<>>
    /\ wpc = "idle"
    /\ wexc = NoError

\* Device.from_api(data, gateway_serial, installation_id): no features yet.
Device_from_api(d, gateway_serial, installation_id) ==
    [id |-> Get(d, "id", Str("")),
     gateway_serial |-> gateway_serial,
     installation_id |-> installation_id,
     model_id |-> Get(d, "modelId", Str("")),
     device_type |-> Get(d, "deviceType", Str("")),
     status |-> Get(d, "status", Str("")),
     features |-> <<>>]

\* The device the API lists.
DeviceData ==
    ("id" :> Str("0")) @@ ("modelId" :> Str("TestModel"))
    @@ ("deviceType" :> Str("heating")) @@ ("status" :> Str("ok"))

\* A raw record with one value.
ValueRecord(name, enabled, v) ==
    ("feature" :> Str(name)) @@ ("isEnabled" :> Bool(enabled)) @@ ("isReady" :> Bool(enabled))
    @@ ("properties" :> Map("value" :> Map("value" :> Num(v))))

\* The "data" of the response to the features request while the server is
\* at version v: every value is v; skipDisabled leaves the disabled out.
ServedFeatures(v, only_enabled) ==
    <<ValueRecord("heating.a", TRUE, v), ValueRecord("heating.b", TRUE, v)>>
    \o (IF only_enabled THEN <<>> ELSE <<ValueRecord("heating.c", FALSE, v)>>)

\* Client.get_features: [Feature.from_api(f) for f in raw_features]
get_features(raw_features) ==
    [i \in DOMAIN raw_features |-> Feature_from_api(raw_features[i])]

\* dataclasses.replace(device, features=features)
replace(device, features) == [device EXCEPT !.features = features]

\* Mutant: the features are stored into the Device that was passed in.
update_device_in_place(h, ref, features) ==
    [heap |-> [h EXCEPT ![ref] = replace(h[ref], features)], ref |-> ref]

\* The end of update_device: replace() builds a new Device object; the
\* heap grows by it, and the call returns the reference to it.
update_device(h, ref, features) ==
    [heap |-> Append(h, replace(h[ref], features)), ref |-> Len(h) + 1]

NoTask ==
    [pc |-> "idle", dev |-> 0, only_enabled |-> FALSE, passed |-> Null,
     fetched |-> <<>>, result |-> 0]

InitUpdate ==
    /\ ExtraIdle
    /\ ReadIdle
    /\ WriteIdle
    /\ MockIdle
    /\ heap = <<Device_from_api(DeviceData, "GW1", "123")>>
    /\ server = 1
    /\ tasks = [t \in Tasks |-> NoTask]
    /\ reader = NoReader

\* The device's state changes at the API.
ServerChanges ==
    /\ server < MaxVersion
    /\ server' = server + 1
    /\ UNCHANGED <<heap, tasks, reader, readvars, writevars, mockvars, extravars>>

\* A task calls update_device(device, only_enabled) on a Device it holds and
\* awaits the features request; `passed` keeps what the Device was then.
UpdateCall(t) ==
    /\ tasks[t].pc = "idle"
    /\ \E ref \in 1..Len(heap), only_enabled \in BOOLEAN :
          tasks' = [tasks EXCEPT ![t] =
                      [pc |-> "fetching", dev |-> ref, only_enabled |-> only_enabled,
                       passed |-> heap[ref], fetched |-> <<>>, result |-> 0]]
    /\ UNCHANGED <<heap, server, reader, readvars, writevars, mockvars, extravars>>

\* The request returns; update_device builds the Device it returns.
UpdateReturn(t) ==
    /\ tasks[t].pc = "fetching"
    /\ LET features == get_features(ServedFeatures(server, tasks[t].only_enabled))
           r == update_device(heap, tasks[t].dev, features)
       IN  /\ heap' = r.heap
           /\ tasks' = [tasks EXCEPT ![t].pc = "done", ![t].fetched = features,
                                     ![t].result = r.ref]
    /\ UNCHANGED <<server, reader, readvars, writevars, mockvars, extravars>>

\* The request raises a transport error; update_device passes it on.
UpdateFails(t) ==
    /\ tasks[t].pc = "fetching"
    /\ tasks' = [tasks EXCEPT ![t].pc = "raised"]
    /\ UNCHANGED <<heap, server, reader, readvars, writevars, mockvars, extravars>>

\* A reader takes a reference to one of the Devices.
ReaderTake ==
    /\ reader.ref = 0
    /\ \E ref \in 1..Len(heap) : reader' = [ref |-> ref, pos |-> 0, seen |-> <<>>]
    /\ UNCHANGED <<heap, server, tasks, readvars, writevars, mockvars, extravars>>

\* The reader reads the next feature of the Device it holds.
ReaderRead ==
    /\ reader.ref # 0
    /\ reader.pos < Len(heap[reader.ref].features)
    /\ reader' = [reader EXCEPT !.pos = @ + 1,
                                !.seen = Append(@, heap[reader.ref].features[reader.pos + 1])]
    /\ UNCHANGED <<heap, server, tasks, readvars, writevars, mockvars, extravars>>

NextUpdate ==
    \/ ServerChanges
    \/ \E t \in Tasks : UpdateCall(t)
    \/ \E t \in Tasks : UpdateReturn(t)
    \/ \E t \in Tasks : UpdateFails(t)
    \/ ReaderTake
    \/ ReaderRead

SpecUpdate == InitUpdate /\ [][NextUpdate]_vars

----------------------------------------------------------------------------
(* The mock client: MockViClient.get_features (mock_client.py) *)

MaxFixture == 3

\* The list comprehension [f for f in xs if keep(f)] is SelectSeq(xs, keep).

\* Mutant: only_enabled is ignored.
MockViClient_get_features_all(d, only_enabled, feature_names) ==
    LET raw_features == Get(d, "data", List(<<>>)).items
        named(f) == \E i \in DOMAIN feature_names.items :
                        feature_names.items[i] = Get(f, "feature", Null)
        by_name == IF Truthy(feature_names) THEN SelectSeq(raw_features, named)
                   ELSE raw_features
    IN  [i \in DOMAIN by_name |-> Feature_from_api(by_name[i])]

\* MockViClient.get_features(..., only_enabled, feature_names) on the
\* loaded fixture d.
MockViClient_get_features(d, only_enabled, feature_names) ==
    LET raw_features == Get(d, "data", List(<<>>)).items
        enabled(f) == Truthy(Get(f, "isEnabled", Null))
        named(f) == \E i \in DOMAIN feature_names.items :
                        feature_names.items[i] = Get(f, "feature", Null)
        by_enabled == IF only_enabled THEN SelectSeq(raw_features, enabled)
                      ELSE raw_features
        by_name == IF Truthy(feature_names) THEN SelectSeq(by_enabled, named)
                   ELSE by_enabled
    IN  [i \in DOMAIN by_name |-> Feature_from_api(by_name[i])]

\* The records of a fixture: two names, enabled, disabled or without the
\* flag, ready or not ready.
FixtureRecords ==
    {("feature" :> Str(n)) @@ fl @@ rd @@ ("properties" :> Map(<<>>)) :
        n \in {"heating.burner", "heating.curve"},
        fl \in {<<>>, "isEnabled" :> Bool(TRUE), "isEnabled" :> Bool(FALSE)},
        rd \in {"isReady" :> Bool(TRUE), "isReady" :> Bool(FALSE)}}

\* Client.get_features: the body of the filter request, None (Null) when
\* the features are fetched with a plain GET.
get_features_payload(only_enabled, feature_names) ==
    IF only_enabled \/ Truthy(feature_names)
    THEN Map(("skipDisabled" :> Bool(only_enabled))
             @@ ("skipNotReady" :> Bool(only_enabled))
             @@ (IF Truthy(feature_names) THEN "filter" :> feature_names ELSE <<>>))
    ELSE Null

\* The fixtures: {"data": [...]} with up to MaxFixture records, or no data.
Fixtures ==
    {<<>>} \cup
    {"data" :> List(xs) :
        xs \in UNION {[1..n -> FixtureRecords] : n \in 0..MaxFixture}}

\* feature_names: None, an empty list, or a list of names.
FeatureNameLists ==
    {Null, List(<<>>), List(<<Str("heating.burner")>>),
     List(<<Str("heating.curve"), Str("heating.burner")>>),
     List(<<Str("heating.unknown")>>)}

InitMock ==
    /\ ExtraIdle
    /\ ReadIdle
    /\ WriteIdle
    /\ UpdateIdle
    /\ mdata \in Fixtures
    /\ margs = NoMockCall
    /\ mret = <<>>

\* await client.get_features(..., only_enabled, feature_names)
MockGetFeatures ==
    /\ ~margs.called
    /\ \E only_enabled \in BOOLEAN, feature_names \in FeatureNameLists :
          /\ margs' = [called |-> TRUE, only_enabled |-> only_enabled,
                       feature_names |-> feature_names]
          /\ mret' = MockViClient_get_features(mdata, only_enabled, feature_names)
    /\ UNCHANGED <<mdata, readvars, writevars, updatevars, extravars>>

NextMock == MockGetFeatures

SpecMock == InitMock /\ [][NextMock]_vars

----------------------------------------------------------------------------
(* A Device and its features: Device.get_feature, Device.features_flat    *)
(* (models.py)                                                            *)

\* Largest number of records of a device.
MaxDevice == 2

DeviceNames == {"heating.a", "heating.a.b", "heating.c"}

\* The properties of a device's record: one value, or two data properties.
DeviceProperties ==
    {Map("value" :> Map("value" :> Num(1))),
     Map(("b" :> Map("value" :> Num(2))) @@ ("c" :> Num(3)))}

DeviceRecords ==
    {("feature" :> Str(n)) @@ ("isEnabled" :> Bool(TRUE)) @@ ("isReady" :> Bool(TRUE))
        @@ ("properties" :> p) : n \in DeviceNames, p \in DeviceProperties}

\* The "data" of a features response: a list of records.
DeviceLists == UNION {[1..n -> DeviceRecords] : n \in 0..MaxDevice}

\* The names a caller asks for.
LookupNames == DeviceNames \cup {"missing"}

\* Mutant: the first feature is returned, whatever its name.
get_feature_first(features, name, i) ==
    IF i > Len(features) THEN Null ELSE features[i]

\* The loop of Device.get_feature from the i-th feature on.
RECURSIVE get_feature_from(_, _, _)
get_feature_from(features, name, i) ==
    IF i > Len(features) THEN Null
    ELSE IF features[i].name = Str(name) THEN features[i]
    ELSE get_feature_from(features, name, i + 1)

\* Device.get_feature(name)
Device_get_feature(self, name) == get_feature_from(self.features, name, 1)

\* The comprehension of Device.features_flat from the i-th feature on.
\* expand() sorts the keys, so the order the dict yields them in is left out.
RECURSIVE features_flat_from(_, _)
features_flat_from(features, i) ==
    IF i > Len(features) THEN <<>>
    ELSE expand(features[i], sorted(DOMAIN features[i].properties.m))
            \o features_flat_from(features, i + 1)

\* Device.features_flat
Device_features_flat(self) == features_flat_from(self.features, 1)

InitDevice ==
    /\ ReadIdle
    /\ WriteIdle
    /\ UpdateIdle
    /\ MockIdle
    /\ CliIdle
    /\ CmdIdle
    /\ CallsIdle
    /\ StatusIdle
    /\ dev \in {replace(Device_from_api(DeviceData, "GW1", "123"), get_features(l)) :
                    l \in DeviceLists}
    /\ dcall = NoDeviceCall

DeviceOnly ==
    UNCHANGED <<readvars, writevars, updatevars, mockvars, clivars, cmdvars, callvars,
               statusvars>>

\* result = dev.get_feature(name)
GetFeature ==
    /\ \E name \in LookupNames :
          dcall' = [op |-> "get_feature", name |-> name,
                    result |-> Device_get_feature(dev, name)]
    /\ UNCHANGED dev
    /\ DeviceOnly

\* result = dev.features_flat
FeaturesFlat ==
    /\ dcall' = [op |-> "features_flat", name |-> "",
                 result |-> Device_features_flat(dev)]
    /\ UNCHANGED dev
    /\ DeviceOnly

NextDevice == GetFeature \/ FeaturesFlat

SpecDevice == InitDevice /\ [][NextDevice]_vars

----------------------------------------------------------------------------
(* The CLI context: setup_client_context (cli.py) *)

\* Python `a or b`
Or(a, b) == IF Truthy(a) THEN a ELSE b

\* Gateway.from_api(data): installationId goes through str().
Gateway_from_api(serial, installation_id) ==
    [serial |-> Str(serial), version |-> Str("1"), status |-> Str("ok"),
     installation_id |-> Str(installation_id)]

\* What get_gateways may return.
GatewayLists ==
    {<<>>,
     <<Gateway_from_api("GW123", "100")>>,
     <<Gateway_from_api("GW456", "200"), Gateway_from_api("GW123", "100")>>}

\* The ids of the devices the API may list for a gateway.
DeviceIdLists == {<<>>, <<"0">>, <<"1", "0">>, <<"1", "2">>}

\* Client.get_devices(installation_id, gateway_serial) for the listed ids.
get_devices(ids, installation_id, gateway_serial) ==
    [i \in DOMAIN ids |->
        Device_from_api(("id" :> Str(ids[i])) @@ DeviceData,
                        gateway_serial, installation_id)]

\* The command line: --mock-device or not, and each id given, empty or absent
\* (getattr(args, ..., None)); `discover` is the caller's.
CliArgs ==
    [mock_device : {Null, Str("Vitodens200W")},
     installation_id : {Null, Str("123")},
     gateway_serial : {Null, Str(""), Str("serial")},
     device_id : {Null, Str("dev1")},
     discover : BOOLEAN]

CLIContext(mock, inst_id, gw_serial, dev_id) ==
    [mock |-> mock, inst_id |-> inst_id, gw_serial |-> gw_serial, dev_id |-> dev_id]

\* Mutant: the first device is taken, whatever its id.
target_dev_first(devices) == devices[1]

\* next((device for device in devices if device.id == "0"), devices[0])
target_dev(devices) ==
    LET zero == {i \in DOMAIN devices : devices[i].id = Str("0")}
    IN  IF zero = {} THEN devices[1]
        ELSE devices[CHOOSE i \in zero : \A j \in zero : i <= j]

InitCli ==
    /\ ReadIdle
    /\ WriteIdle
    /\ UpdateIdle
    /\ MockIdle
    /\ DeviceIdle
    /\ CmdIdle
    /\ CallsIdle
    /\ StatusIdle
    /\ cargs \in CliArgs
    /\ cworld \in [gateways : GatewayLists, devices : DeviceIdLists]
    /\ crequests = <<>>
    /\ cpc = "start"
    /\ cctx = NoContext
    /\ cexc = NoError

CliOnly ==
    UNCHANGED <<readvars, writevars, updatevars, mockvars, devicevars, cmdvars, callvars,
               statusvars>>

\* setup_client_context up to its first await, or to the yield.
SetupClientContext ==
    /\ cpc = "start"
    /\ IF Truthy(cargs.mock_device)
       THEN /\ cctx' = CLIContext(TRUE, Or(cargs.installation_id, Str("99999")),
                                  Or(cargs.gateway_serial, Str("MOCK_GATEWAY")),
                                  Or(cargs.device_id, Str("0")))
            /\ cpc' = "yielded"
            /\ crequests' = crequests
       ELSE IF /\ cargs.discover
               /\ ~(/\ Truthy(cargs.installation_id)
                    /\ Truthy(cargs.gateway_serial)
                    /\ Truthy(cargs.device_id))
       THEN /\ crequests' = Append(crequests, <<"get_gateways">>)
            /\ cpc' = "get_gateways"
            /\ cctx' = cctx
       ELSE /\ cctx' = CLIContext(FALSE, cargs.installation_id, cargs.gateway_serial,
                                  cargs.device_id)
            /\ cpc' = "yielded"
            /\ crequests' = crequests
    /\ UNCHANGED <<cargs, cworld, cexc>>
    /\ CliOnly

\* gw_serial and inst_id after the gateways are known.
gw_serial_found(args, gateways) ==
    IF ~Truthy(args.gateway_serial) THEN gateways[1].serial ELSE args.gateway_serial

inst_id_found(args, gateways) ==
    IF ~Truthy(args.installation_id) THEN gateways[1].installation_id
    ELSE args.installation_id

\* get_gateways returns: from the await to the next await, the yield or the
\* raise.
GetGatewaysReturns ==
    /\ cpc = "get_gateways"
    /\ LET gateways == cworld.gateways
       IN  IF gateways = <<>>
           THEN /\ cexc' = Error("ValueError", "No gateways found.", {})
                /\ cpc' = "raised"
                /\ UNCHANGED <<crequests, cctx>>
           ELSE IF ~Truthy(cargs.device_id)
           THEN /\ crequests' = Append(crequests,
                       <<"get_devices", inst_id_found(cargs, gateways),
                         gw_serial_found(cargs, gateways)>>)
                /\ cpc' = "get_devices"
                /\ UNCHANGED <<cctx, cexc>>
           ELSE /\ cctx' = CLIContext(FALSE, inst_id_found(cargs, gateways),
                                      gw_serial_found(cargs, gateways), cargs.device_id)
                /\ cpc' = "yielded"
                /\ UNCHANGED <<crequests, cexc>>
    /\ UNCHANGED <<cargs, cworld>>
    /\ CliOnly

\* get_devices returns: to the yield or the raise.
GetDevicesReturns ==
    /\ cpc = "get_devices"
    /\ LET inst_id == crequests[Len(crequests)][2]
           gw_serial == crequests[Len(crequests)][3]
           devices == get_devices(cworld.devices, inst_id, gw_serial)
       IN  IF devices = <<>>
           THEN /\ cexc' = Error("ValueError", "No devices found.", {})
                /\ cpc' = "raised"
                /\ cctx' = cctx
           ELSE /\ cctx' = CLIContext(FALSE, inst_id, gw_serial, target_dev(devices).id)
                /\ cpc' = "yielded"
                /\ cexc' = cexc
    /\ UNCHANGED <<cargs, cworld, crequests>>
    /\ CliOnly

\* The awaited client call fails: the error leaves setup_client_context.
ClientCallFails ==
    /\ cpc \in {"get_gateways", "get_devices"}
    /\ cexc' = Error("ViConnectionError", "", {})
    /\ cpc' = "raised"
    /\ UNCHANGED <<cargs, cworld, crequests, cctx>>
    /\ CliOnly

NextCli == SetupClientContext \/ GetGatewaysReturns \/ GetDevicesReturns \/ ClientCallFails

SpecCli == InitCli /\ [][NextCli]_vars

----------------------------------------------------------------------------
(* The CLI commands set and exec: parse_cli_params (utils.py), cmd_set,   *)
(* cmd_exec, _determine_target_value (cli.py)                             *)

\* s.startswith(prefix)
StartsWith(s, prefix) ==
    /\ Len(s) >= Len(prefix)
    /\ SubSeq(s, 1, Len(prefix)) = prefix

\* `c in s` for a character c
Contains(s, c) == \E i \in 1..Len(s) : SubSeq(s, i, i) = c

\* s.index(c): the first position of c in s
IndexOf(s, c) ==
    CHOOSE i \in 1..Len(s) :
        /\ SubSeq(s, i, i) = c
        /\ \A j \in 1..(i - 1) : SubSeq(s, j, j) # c

UpperCase == "ABCDEFGHIJKLMNOPQRSTUVWXYZ"
LowerCase == "abcdefghijklmnopqrstuvwxyz"

\* s.lower()
RECURSIVE lower(_)
lower(s) ==
    IF s = "" THEN ""
    ELSE LET c == SubSeq(s, 1, 1)
         IN  (IF Contains(UpperCase, c)
              THEN SubSeq(LowerCase, IndexOf(UpperCase, c), IndexOf(UpperCase, c))
              ELSE c) \o lower(SubSeq(s, 2, Len(s)))

\* s.strip(), for the blank as white space
RECURSIVE strip(_)
strip(s) ==
    IF s = "" THEN ""
    ELSE IF SubSeq(s, 1, 1) = " " THEN strip(SubSeq(s, 2, Len(s)))
    ELSE IF SubSeq(s, Len(s), Len(s)) = " " THEN strip(SubSeq(s, 1, Len(s) - 1))
    ELSE s

Digits == "0123456789"

\* A non-empty string of decimal digits.
AllDigits(s) ==
    /\ s # ""
    /\ \A i \in 1..Len(s) : Contains(Digits, SubSeq(s, i, i))

\* The number a string of decimal digits denotes.
RECURSIVE digits_value(_)
digits_value(s) ==
    IF s = "" THEN 0
    ELSE digits_value(SubSeq(s, 1, Len(s) - 1)) * 10
            + (IndexOf(Digits, SubSeq(s, Len(s), Len(s))) - 1)

\* A numeral without its sign, and the sign.
unsigned(s) == IF StartsWith(s, "-") THEN SubSeq(s, 2, Len(s)) ELSE s
sign(s) == IF StartsWith(s, "-") THEN -1 ELSE 1

\* int(s) does not raise: an optional sign and decimal digits.
is_int(s) == AllDigits(unsigned(s))

\* float(s) does not raise, for the numerals the runs pass: an int numeral,
\* or digits, a point and one digit.
is_float(s) ==
    \/ is_int(s)
    \/ /\ Len(unsigned(s)) >= 3
       /\ SubSeq(unsigned(s), Len(unsigned(s)) - 1, Len(unsigned(s)) - 1) = "."
       /\ AllDigits(SubSeq(unsigned(s), 1, Len(unsigned(s)) - 2))
       /\ AllDigits(SubSeq(unsigned(s), Len(unsigned(s)), Len(unsigned(s))))

\* int(s) and float(s) as numbers in tenths: "14" is Num(140), "1.4" Num(14).
int_of(s) == Num(sign(s) * digits_value(unsigned(s)) * 10)

float_of(s) ==
    IF is_int(s) THEN int_of(s)
    ELSE LET u == unsigned(s)
         IN  Num(sign(s) * (digits_value(SubSeq(u, 1, Len(u) - 2)) * 10
                            + digits_value(SubSeq(u, Len(u), Len(u)))))

\* json.loads for the documents the runs pass; any other raises
\* JSONDecodeError.
JsonTable ==
    ("{\"shift\": 5}" :> Map("shift" :> Num(50)))
    @@ ("{\"slope\": 1.4}" :> Map("slope" :> Num(14)))

\* The outcome of a function that returns a value or raises ValueError.
Returned(v) == [raised |-> FALSE, value |-> v]
RaisedValueError == [raised |-> TRUE, value |-> Null]

\* parse_cli_params: the type inference for one value
infer_value(val_str) ==
    IF lower(val_str) = "true" THEN Bool(TRUE)
    ELSE IF lower(val_str) = "false" THEN Bool(FALSE)
    ELSE IF is_int(val_str) THEN int_of(val_str)
    ELSE IF is_float(val_str) THEN float_of(val_str)
    ELSE IF /\ StartsWith(val_str, "[") \/ StartsWith(val_str, "{")
            /\ val_str \in DOMAIN JsonTable
    THEN JsonTable[val_str]
    ELSE Str(val_str)

\* parse_cli_params: the loop over key=value items, from the i-th on
RECURSIVE parse_pairs(_, _, _)
parse_pairs(params_list, i, params) ==
    IF i > Len(params_list) THEN Returned(params)
    ELSE IF ~Contains(params_list[i], "=") THEN RaisedValueError
    ELSE LET item == params_list[i]
             eq == IndexOf(item, "=")
             key == SubSeq(item, 1, eq - 1)
             val_str == SubSeq(item, eq + 1, Len(item))
         IN  parse_pairs(params_list, i + 1, (key :> infer_value(val_str)) @@ params)

\* parse_cli_params(params_list)
parse_cli_params(params_list) ==
    IF params_list = <<>> THEN Returned(<<>>)
    ELSE IF Len(params_list) = 1 /\ StartsWith(strip(params_list[1]), "{")
    THEN IF params_list[1] \in DOMAIN JsonTable
         THEN Returned(JsonTable[params_list[1]].m)
         ELSE RaisedValueError
    ELSE parse_pairs(params_list, 1, <<>>)

\* FeatureControl and the Feature the commands get from get_features.
FeatureControl(command_name, param_name, uri) ==
    [command_name |-> command_name, param_name |-> param_name,
     required_params |-> <<param_name>>, parent_feature_name |-> "heating.curve",
     uri |-> uri]

ControlledFeature(name, control) == [name |-> name, control |-> control]

SlopeFeature ==
    ControlledFeature("heating.curve.slope", FeatureControl("setCurve", "slope", "uri"))

ReadOnlyFeature == ControlledFeature("heating.curve.slope", Null)

\* What get_features(device, feature_names=[name]) may return.
ServedLists ==
    {<<>>, <<SlopeFeature>>, <<ReadOnlyFeature>>, <<ReadOnlyFeature, SlopeFeature>>}

\* The parameter arguments of `exec`.
ExecParams ==
    {<<>>, <<"slope=1.4">>, <<"shift=5">>, <<"slope=eco", "shift=5">>,
     <<"22">>, <<"slope=1.4", "mode">>, <<"{bad">>,
     <<"{\"shift\": 5}">>, <<"{\"slope\": 1.4}">>}

\* The command lines.
CmdArgs ==
    {[cmd |-> "set", feature_name |-> "heating.curve.slope", command_name |-> "",
      params |-> <<>>, value |-> v] : v \in {"1.4", "eco"}}
    \cup {[cmd |-> "exec", feature_name |-> "heating.curve.slope", command_name |-> c,
           params |-> ps, value |-> ""] : c \in {"setCurve", "setMode"}, ps \in ExecParams}

\* cmd_set: target_val = args.value, or float(args.value) when that parses.
set_target_value(text) == IF is_float(text) THEN float_of(text) ELSE Str(text)

\* Mutant: the target value is looked for in the parsed dict only.
determine_target_value_dict_only(raw_params, params_dict, target_feature) ==
    Get(params_dict, target_feature.control.param_name, Null)

\* _determine_target_value(raw_params, params_dict, feature); None is Null.
determine_target_value(raw_params, params_dict, target_feature) ==
    LET val == Get(params_dict, target_feature.control.param_name, Null)
    IN  IF val # Null THEN val
        ELSE IF /\ raw_params # <<>>
                /\ Len(raw_params) = 1
                /\ ~Contains(raw_params[1], "=")
        THEN IF is_float(raw_params[1]) THEN float_of(raw_params[1])
             ELSE Str(raw_params[1])
        ELSE Null

SetFeature(target_feature, target) ==
    [kind |-> "set_feature", feature |-> target_feature.name, target |-> target]

RawPost(uri, body) == [kind |-> "post", uri |-> uri, body |-> body]

InitCmd ==
    /\ ReadIdle
    /\ WriteIdle
    /\ UpdateIdle
    /\ MockIdle
    /\ DeviceIdle
    /\ CliIdle
    /\ CallsIdle
    /\ StatusIdle
    /\ xargs \in CmdArgs
    /\ xserved \in ServedLists
    /\ xparams = <<>>
    /\ xwrites = <<>>
    /\ xpc = "start"

CmdOnly ==
    UNCHANGED <<readvars, writevars, updatevars, mockvars, devicevars, clivars, callvars,
               statusvars>>

\* cmd_set / cmd_exec up to the await of get_features: cmd_exec parses its
\* parameters and returns on a ValueError; setup_client_context yields a
\* context or raises, and what it raises is caught and logged.
CmdEnter ==
    /\ xpc = "start"
    /\ LET parsed == IF xargs.cmd = "exec" /\ xargs.params # <<>>
                     THEN parse_cli_params(xargs.params)
                     ELSE Returned(<<>>)
       IN  IF parsed.raised
           THEN xpc' = "done" /\ xparams' = xparams
           ELSE /\ xparams' = parsed.value
                /\ xpc' \in {"fetch", "failed"}
    /\ UNCHANGED <<xargs, xserved, xwrites>>
    /\ CmdOnly

\* get_features returns: the checks, and the dispatch of the write.
FetchReturns ==
    /\ xpc = "fetch"
    /\ IF xserved = <<>>
       THEN xpc' = "done" /\ xwrites' = xwrites
       ELSE LET target_feature == xserved[1]
            IN  IF target_feature.control = Null    \* `not feature.control`
                THEN xpc' = "done" /\ xwrites' = xwrites
                ELSE IF xargs.cmd = "set"
                THEN /\ xwrites' = Append(xwrites,
                            SetFeature(target_feature, set_target_value(xargs.value)))
                     /\ xpc' = "write"
                ELSE IF target_feature.control.command_name # xargs.command_name
                THEN xpc' = "done" /\ xwrites' = xwrites
                ELSE LET target_val ==
                            determine_target_value(xargs.params, xparams, target_feature)
                     IN  /\ xwrites' = Append(xwrites,
                                IF target_val # Null
                                THEN SetFeature(target_feature, target_val)
                                ELSE RawPost(target_feature.control.uri, xparams))
                         /\ xpc' = "write"
    /\ UNCHANGED <<xargs, xserved, xparams>>
    /\ CmdOnly

\* get_features raises: caught and logged.
FetchFails ==
    /\ xpc = "fetch"
    /\ xpc' = "failed"
    /\ UNCHANGED <<xargs, xserved, xparams, xwrites>>
    /\ CmdOnly

\* The write returns and its result is printed, or it raises and the error
\* is printed.
WriteCompletes ==
    /\ xpc = "write"
    /\ xpc' \in {"done", "failed"}
    /\ UNCHANGED <<xargs, xserved, xparams, xwrites>>
    /\ CmdOnly

NextCmd == CmdEnter \/ FetchReturns \/ FetchFails \/ WriteCompletes

SpecCmd == InitCmd /\ [][NextCmd]_vars

----------------------------------------------------------------------------
(* A sequence of calls of Client.execute_command (api.py): the dict that   *)
(* is the default value of `params` is one object shared by all calls      *)

\* Largest number of calls in a row.
MaxCalls == 2

\* The Feature every call is made on: setCurve is executable and has a uri.
CallFeature ==
    CHOOSE w \in {Feature_from_api(r) : r \in WriteRecords} :
        /\ w.commands["setCurve"].is_executable = Bool(TRUE)
        /\ w.commands["setCurve"].uri = Str("https://api.vi/commands/setCurve")

\* The dicts a caller passes as params or as keyword arguments.
CallDicts == UNION {ParamsOver(S) : S \in SUBSET {"slope", "shift"}}

\* Mutant: final_params is params itself, and update() writes into it.
params_after_update_in_place(params, kwargs) == Updated(params, kwargs)

\* The dict passed as params after the call: final_params is a copy of it
\* (params.copy()), so final_params.update(kwargs) does not reach it.
params_after(params, kwargs) == params

InitCalls ==
    /\ ReadIdle
    /\ WriteIdle
    /\ UpdateIdle
    /\ MockIdle
    /\ DeviceIdle
    /\ CliIdle
    /\ CmdIdle
    /\ StatusIdle
    /\ kdefault = <<>>
    /\ kcaller \in CallDicts
    /\ klog = <<>>

CallsOnly ==
    UNCHANGED <<readvars, writevars, updatevars, mockvars, devicevars, clivars, cmdvars,
               statusvars>>

\* What one call of execute_command(CallFeature, "setCurve", params, **kwargs)
\* does, from its entry to its return or raise: `passed` is the caller's
\* dict (none when the default is used), params the dict the call works on,
\* post_returns what connector.post does.
call_entry(passed, by_default, params, kwargs, post_returns) ==
    LET r == execute_command(CallFeature, "setCurve", params, kwargs)
    IN  [passed |-> passed,
         by_default |-> by_default,
         kwargs |-> kwargs,
         raised |-> r.raised \/ ~post_returns,
         error |-> r.error,
         posted |-> IF r.raised THEN <<>> ELSE <<[uri |-> r.uri, body |-> r.body]>>]

\* The caller passes a dict of its own, which it keeps.
CallWithParams ==
    /\ Len(klog) < MaxCalls
    /\ \E kwargs \in CallDicts, post_returns \in BOOLEAN :
          /\ klog' = Append(klog, call_entry(kcaller, FALSE, kcaller, kwargs, post_returns))
          /\ kcaller' = params_after(kcaller, kwargs)
    /\ kdefault' = kdefault
    /\ CallsOnly

\* The caller passes keyword arguments only: params is the default dict.
CallWithDefault ==
    /\ Len(klog) < MaxCalls
    /\ \E kwargs \in CallDicts, post_returns \in BOOLEAN :
          /\ klog' = Append(klog, call_entry(<<>>, TRUE, kdefault, kwargs, post_returns))
          /\ kdefault' = params_after(kdefault, kwargs)
    /\ kcaller' = kcaller
    /\ CallsOnly

NextCalls == CallWithParams \/ CallWithDefault

SpecCalls == InitCalls /\ [][NextCalls]_vars

----------------------------------------------------------------------------
(* The full status of an installation: Client.get_full_installation_status *)
(* (api.py)                                                               *)

\* The gateways the account has: of the installation 100 and of another.
StatusGateways ==
    {<<>>,
     <<Gateway_from_api("GW123", "100")>>,
     <<Gateway_from_api("GW456", "200")>>,
     <<Gateway_from_api("GW123", "100"), Gateway_from_api("GW456", "200")>>,
     <<Gateway_from_api("GW456", "200"), Gateway_from_api("GW123", "100")>>}

\* The device ids the API lists for each gateway serial.
StatusDevices == [{"GW123", "GW456"} -> {<<>>, <<"0">>, <<"0", "1">>}]

\* The "data" the API serves for the features of a device.
StatusFeatures(device_id, only_enabled) ==
    ServedFeatures(IF device_id = Str("0") THEN 1 ELSE 2, only_enabled)

\* The loop of get_full_installation_status from the di-th device of the
\* gw-th gateway on: the next await and the request made for it, or the
\* return.
status_step(gateways, gw, devices, di, installation_id) ==
    IF di <= Len(devices)
    THEN [loop |-> [pc |-> "features", gw |-> gw, devices |-> devices, di |-> di],
          req |-> <<<<"get_features", installation_id, gateways[gw].serial,
                      devices[di].id>>>>]
    ELSE IF gw < Len(gateways)
    THEN [loop |-> [pc |-> "devices", gw |-> gw + 1, devices |-> <<>>, di |-> 0],
          req |-> <<<<"get_devices", installation_id, gateways[gw + 1].serial>>>>]
    ELSE [loop |-> [pc |-> "returned", gw |-> gw, devices |-> <<>>, di |-> 0],
          req |-> <<>>]

InitStatus ==
    /\ ReadIdle
    /\ WriteIdle
    /\ UpdateIdle
    /\ MockIdle
    /\ DeviceIdle
    /\ CliIdle
    /\ CmdIdle
    /\ CallsIdle
    /\ sargs \in [installation_id : {Str("100")}, only_enabled : BOOLEAN]
    /\ sworld \in [gateways : StatusGateways, devices : StatusDevices]
    /\ sreq = <<>>
    /\ sloop = [pc |-> "start", gw |-> 0, devices |-> <<>>, di |-> 0]
    /\ sall = <<>>
    /\ sret = NoStatus

StatusOnly ==
    UNCHANGED <<readvars, writevars, updatevars, mockvars, devicevars, clivars, cmdvars,
               callvars>>

\* get_full_installation_status up to `await self.get_gateways()`
StatusCall ==
    /\ sloop.pc = "start"
    /\ sreq' = Append(sreq, <<"get_gateways">>)
    /\ sloop' = [sloop EXCEPT !.pc = "gateways"]
    /\ UNCHANGED <<sargs, sworld, sall, sret>>
    /\ StatusOnly

\* get_gateways returns: the loop over the gateways begins.
StatusGatewaysReturn ==
    /\ sloop.pc = "gateways"
    /\ LET s == status_step(sworld.gateways, 0, <<>>, 1, sargs.installation_id)
       IN  /\ sloop' = s.loop
           /\ sreq' = sreq \o s.req
           /\ sret' = IF s.loop.pc = "returned" THEN List(sall) ELSE sret
    /\ UNCHANGED <<sargs, sworld, sall>>
    /\ StatusOnly

\* get_devices returns for the current gateway: the inner loop begins.
StatusDevicesReturn ==
    /\ sloop.pc = "devices"
    /\ LET gw_serial == sworld.gateways[sloop.gw].serial
           devices == get_devices(sworld.devices[gw_serial.s], sargs.installation_id,
                                  gw_serial)
           s == status_step(sworld.gateways, sloop.gw, devices, 1, sargs.installation_id)
       IN  /\ sloop' = s.loop
           /\ sreq' = sreq \o s.req
           /\ sret' = IF s.loop.pc = "returned" THEN List(sall) ELSE sret
    /\ UNCHANGED <<sargs, sworld, sall>>
    /\ StatusOnly

\* get_features returns for the current device: the device is replaced by
\* one with the features and appended; the loops go on.
StatusFeaturesReturn ==
    /\ sloop.pc = "features"
    /\ LET device == sloop.devices[sloop.di]
           features == get_features(StatusFeatures(device.id, sargs.only_enabled))
           s == status_step(sworld.gateways, sloop.gw, sloop.devices, sloop.di + 1,
                            sargs.installation_id)
       IN  /\ sall' = Append(sall, replace(device, features))
           /\ sloop' = s.loop
           /\ sreq' = sreq \o s.req
           /\ sret' = IF s.loop.pc = "returned" THEN List(sall') ELSE sret
    /\ UNCHANGED <<sargs, sworld>>
    /\ StatusOnly

\* An awaited fetch raises: the error leaves get_full_installation_status.
StatusFetchFails ==
    /\ sloop.pc \in {"gateways", "devices", "features"}
    /\ sloop' = [sloop EXCEPT !.pc = "raised"]
    /\ UNCHANGED <<sargs, sworld, sreq, sall, sret>>
    /\ StatusOnly

NextStatus ==
    \/ StatusCall
    \/ StatusGatewaysReturn
    \/ StatusDevicesReturn
    \/ StatusFeaturesReturn
    \/ StatusFetchFails

SpecStatus == InitStatus /\ [][NextStatus]_vars

----------------------------------------------------------------------------
(* What the claims speak of *)

\* The record's name ("" when the record has none).
RecordName == Get(data, "feature", Str("")).s

\* The record's properties, when that is a dict.
RecordProps == Get(data, "properties", Map(<<>>)).m

\* The record's data keys: its property keys that are not display-only.
DataKeys == PropertyKeys(data) \ {"unit", "type", "displayValue", "links"}

\* The priority vocabulary, in priority order.
PriorityList ==
    <<"value", "status", "active", "enabled", "strength", "entries",
      "day", "week", "month", "year">>

PrioritySet == {PriorityList[i] : i \in DOMAIN PriorityList}

\* expand() has returned.
Expanded == pc \in {"expanded", "read"}

\* The name the claims give the Feature of data key k.
ExpectedName(k) ==
    IF EndsWith(RecordName, "." \o k) THEN RecordName ELSE RecordName \o "." \o k

----------------------------------------------------------------------------
(* C1: a record whose data keys are a non-empty subset of the priority set
   yields exactly one Feature, named exactly as the record. *)
C1_ScalarRecordYieldsOneFeature ==
    (Expanded /\ DataKeys # {} /\ DataKeys \subseteq PrioritySet)
        => (Len(flat) = 1 /\ flat[1].name = Str(RecordName))

C1_Witness ==
    /\ Expanded
    /\ DataKeys = {"value", "status"}
    /\ RecordName = "heating.curve"
    /\ Len(flat) = 1

(* C2: a record with a data key outside the priority set yields one Feature
   per data key, in ascending lexical order of the key, each named
   name.key, or name when name already ends with .key. *)
C2_CompositeRecordYieldsOnePerKey ==
    (Expanded /\ ~(DataKeys \subseteq PrioritySet))
        => /\ Len(flat) = Cardinality(DataKeys)
           /\ \A i \in 1..Len(flat) :
                \E k \in DataKeys :
                    /\ Cardinality({j \in DataKeys : StrLess(j, k)}) = i - 1
                    /\ flat[i].name = Str(ExpectedName(k))

C2_Witness ==
    /\ Expanded
    /\ RecordName = "circuits.0.name"
    /\ DataKeys = {"shift", "name"}
    /\ Len(flat) = 2
    /\ flat[1].name = Str("circuits.0.name")
    /\ flat[2].name = Str("circuits.0.name.shift")

(* C3: a record with no data keys (no properties, or display-only keys
   alone) yields zero Features; a record with a data key yields at least
   one. *)
C3_StructuralRecordYieldsNone ==
    Expanded => /\ DataKeys = {} => Len(flat) = 0
                /\ DataKeys # {} => Len(flat) >= 1

C3_Witness ==
    /\ Expanded
    /\ PropertyKeys(data) = {"unit"}
    /\ flat = <<>>

(* C4: the names of the Features produced from one record are pairwise
   distinct, whatever its property keys (keys with dots, keys equal to a
   suffix of the record name). *)
C4_NamesPairwiseDistinct ==
    Expanded => \A i, j \in 1..Len(flat) : i # j => flat[i].name # flat[j].name

(* C5: expanding a record gives the same Feature sequence every time,
   whatever the order in which the properties dict holds its keys. *)
C5_ExpansionIndependentOfKeyOrder ==
    Expanded => \A order \in Orders(PropertyKeys(data)) :
                    expand(Feature_from_api(data), order) = flat

C5_Witness ==
    /\ Expanded
    /\ DataKeys = {"slope", "shift"}
    /\ Len(flat) = 2
    /\ flat[1].name = Str("heating.curve.shift")
    /\ flat[2].name = Str("heating.curve.slope")

\* A scalar record: its data keys are a non-empty subset of the priority set.
ScalarRecord == DataKeys # {} /\ DataKeys \subseteq PrioritySet

\* The entry under the first key of the priority list the record holds.
PrimaryEntry ==
    LET i == CHOOSE n \in DOMAIN PriorityList :
                /\ PriorityList[n] \in DOMAIN RecordProps
                /\ \A j \in 1..(n - 1) : PriorityList[j] \notin DOMAIN RecordProps
    IN  RecordProps[PriorityList[i]]

\* An entry that is a map holding key k.
MapWith(entry, k) == entry.t = "map" /\ k \in DOMAIN entry.m

(* C6: the value of a scalar record's Feature comes from the first key of
   the priority list the record holds: entry.value when the entry is a map
   with `value`, else the entry itself; lower-priority keys do not count. *)
C6_ValueFromFirstPriorityKey ==
    (pc = "read" /\ ScalarRecord)
        => read[1].value = IF MapWith(PrimaryEntry, "value")
                           THEN PrimaryEntry.m["value"]
                           ELSE PrimaryEntry

C6_Witness ==
    /\ pc = "read"
    /\ PropertyKeys(data) = {"status", "entries"}
    /\ RecordProps["status"] = Map("value" :> Str("ok"))
    /\ read[1].value = Str("ok")

(* C7: the unit of a scalar record's Feature is the primary entry's unit
   when it has one, else the top-level `unit` of the properties when there
   is one (also when the primary entry is a map without unit), else none. *)
C7_UnitFallsBackToTopLevel ==
    (pc = "read" /\ ScalarRecord)
        => read[1].unit = IF MapWith(PrimaryEntry, "unit")
                          THEN PrimaryEntry.m["unit"]
                          ELSE IF "unit" \in DOMAIN RecordProps
                          THEN RecordProps["unit"]
                          ELSE Null

\* A map with the weekday keys of a schedule.
IsWeekMap(v) == v.t = "map" /\ {"mon", "tue", "wed"} \subseteq DOMAIN v.m

\* A boolean, raw or as {value: boolean}.
IsBoolEntry(entry) ==
    entry.t = "bool" \/ (MapWith(entry, "value") /\ entry.m["value"].t = "bool")

\* A schedule, raw or as {value: schedule}.
IsScheduleEntry(entry) ==
    IsWeekMap(entry) \/ (MapWith(entry, "value") /\ IsWeekMap(entry.m["value"]))

\* A record whose data keys are `active`, a boolean, and `entries`, a schedule.
ScheduleRecord ==
    /\ DataKeys = {"active", "entries"}
    /\ IsBoolEntry(RecordProps["active"])
    /\ IsScheduleEntry(RecordProps["entries"])

(* C8, as claimed: a record with data keys `active` (boolean) and `entries`
   (schedule) yields one Feature, named as the record, whose value is the
   schedule map. *)
C8_ScheduleRecordValueIsSchedule ==
    (pc = "read" /\ ScheduleRecord)
        => /\ Len(flat) = 1
           /\ flat[1].name = Str(RecordName)
           /\ read[1].value = IF IsWeekMap(RecordProps["entries"])
                              THEN RecordProps["entries"]
                              ELSE RecordProps["entries"].m["value"]

(* C8, amended: such a record yields one Feature, named as the record, whose
   value is the boolean of `active`; the schedule stays in its properties
   under `entries`, and no Feature per weekday is made. *)
C8_ScheduleRecordValueIsActive ==
    (pc = "read" /\ ScheduleRecord)
        => /\ Len(flat) = 1
           /\ flat[1].name = Str(RecordName)
           /\ read[1].value = IF RecordProps["active"].t = "bool"
                              THEN RecordProps["active"]
                              ELSE RecordProps["active"].m["value"]
           /\ flat[1].properties.m["entries"] = RecordProps["entries"]

C8_Witness ==
    /\ pc = "read"
    /\ ScheduleRecord
    /\ RecordProps["entries"] = Schedule
    /\ read[1].value = Bool(TRUE)

(* C9: every Feature expansion produces has a value that is a scalar
   (number, text, boolean, none), a weekly schedule map or a list. *)
C9_ValuesAreScalarScheduleOrList ==
    pc = "read" =>
        \A i \in 1..Len(read) :
            \/ read[i].value.t \in {"num", "str", "bool", "null", "list"}
            \/ IsWeekMap(read[i].value)

\* A record whose properties is missing, null, empty or not a map.
NoUsableProperties ==
    \/ "properties" \notin DOMAIN data
    \/ data["properties"].t # "map"
    \/ DOMAIN data["properties"].m = {}

(* C10: parsing and expanding a record never raises; a record whose
   properties is missing, null, empty or not a map yields zero Features. *)
C10_ExpansionNeverRaises ==
    /\ pc # "raised"
    /\ exc = "none"
    /\ (NoUsableProperties /\ pc \notin {"raw", "parsed"})
            => (Expanded /\ Len(flat) = 0)

(* C11: in the flat feature list every data key has its own Feature: the
   key `value` one named exactly as the record, every other key k one named
   record.k, also when all data keys are in the priority vocabulary. *)
C11_OneFeaturePerDataKey ==
    Expanded =>
        /\ Len(flat) = Cardinality(DataKeys)
        /\ \A k \in DataKeys : \E i \in 1..Len(flat) :
              flat[i].name = Str(IF k = "value" THEN RecordName
                                 ELSE RecordName \o "." \o k)

\* The commands the raw record declares (name -> spec), when that is a dict.
RecordCommands == Get(data, "commands", Map(<<>>)).m

\* The indices of the Features generated from data key k: the one Feature
\* of a scalar record, the sub-Feature of k of a composite one.
GeneratedFrom(k) ==
    {i \in 1..Len(flat) : ScalarRecord \/ flat[i].name = Str(ExpectedName(k))}

(* C12: the hysteresis record (properties value, switchOnValue,
   switchOffValue; one single-parameter command for each) expands into
   exactly 3 Features, each bound to exactly one command, and no two
   Features share a command. *)
C12_HysteresisFeaturesBoundToDistinctCommands ==
    (Expanded /\ data = HysteresisRecord) =>
        /\ Len(flat) = 3
        /\ \A i \in 1..Len(flat) : Cardinality(DOMAIN flat[i].commands) = 1
        /\ \A i, j \in 1..Len(flat) :
              i # j => DOMAIN flat[i].commands \cap DOMAIN flat[j].commands = {}

(* C13: for every command of the record and every parameter of it named as
   a data key, the Feature generated from that key carries the binding to
   that command: its name, that parameter with its constraints unchanged,
   all parameter names of the command, and the command's uri; a Feature
   whose key matches no parameter carries no binding. *)
C13_FeatureOfParameterCarriesControl ==
    Expanded =>
        /\ \A c \in DOMAIN RecordCommands :
           \A p \in DOMAIN Get(RecordCommands[c].m, "params", Map(<<>>)).m :
              p \in DataKeys =>
                 /\ GeneratedFrom(p) # {}
                 /\ \A i \in GeneratedFrom(p) :
                       /\ c \in DOMAIN flat[i].commands
                       /\ flat[i].commands[c].name = c
                       /\ flat[i].commands[c].uri = RecordCommands[c].m["uri"]
                       /\ flat[i].commands[c].params
                              = RecordCommands[c].m["params"]
        /\ \A k \in DataKeys : \A i \in GeneratedFrom(k) :
              (\A c \in DOMAIN RecordCommands :
                    DOMAIN Get(RecordCommands[c].m, "params", Map(<<>>)).m
                        \cap (IF ScalarRecord THEN DataKeys ELSE {k}) = {})
                 => flat[i].commands = <<>>

----------------------------------------------------------------------------
(* Claims on the write path *)

\* The command the call names, when the feature has it.
CalledCommand == wfeature.commands[wargs.command_name]

\* What the call passes as parameters: params overridden by kwargs.
FinalParams == Updated(wargs.params, wargs.kwargs)

\* The call may reach the transport: the command exists, is executable, has
\* a uri, and its parameters pass validation.
MayPost ==
    /\ wargs.command_name \in DOMAIN wfeature.commands
    /\ CalledCommand.is_executable = Bool(TRUE)
    /\ CalledCommand.uri # Str("")
    /\ Command_validate(CalledCommand, FinalParams) = NoError

(* C14: one call of execute_command posts at most once, and only when the
   feature has the named command, the command is executable, its uri is not
   empty and validation passed; otherwise it raises and posts nothing. *)
C14_PostOnlyAfterAllChecks ==
    /\ Len(posts) <= 1
    /\ Len(posts) = 1 =>
          /\ MayPost
          /\ posts[1] = [uri |-> CalledCommand.uri.s, body |-> FinalParams]
    /\ (wpc # "idle" /\ ~MayPost) =>
          /\ wpc = "raised"
          /\ wexc # NoError
          /\ posts = <<>>

C14_Witness ==
    /\ wpc = "returned"
    /\ Len(posts) = 1
    /\ wargs.command_name = "setCurve"
    /\ wfeature.commands["setCurve"].is_executable = Bool(TRUE)

\* The flat Features of the record the written Feature comes from.
Siblings ==
    expand(wfeature, CHOOSE o \in Orders(DOMAIN wfeature.properties.m) : TRUE)

\* The current value of the sibling Feature of parameter p.
SiblingValue(p) ==
    LET i == CHOOSE n \in 1..Len(Siblings) :
                Siblings[n].name = Str(wfeature.name.s \o "." \o p)
    IN  value(Siblings[i])

\* The call names a command that exists, is executable and has a uri, and
\* supplies some but not all of its required parameters.
PartialWrite ==
    /\ wpc # "idle"
    /\ wargs.command_name \in DOMAIN wfeature.commands
    /\ CalledCommand.is_executable = Bool(TRUE)
    /\ CalledCommand.uri # Str("")
    /\ DOMAIN FinalParams \cap required_params(CalledCommand.params) # {}
    /\ required_params(CalledCommand.params) \ DOMAIN FinalParams # {}

(* C15 as stated: a write that supplies only some of the required
   parameters hands the transport a map with all required parameters, the
   others filled with the current values of their sibling Features. *)
C15_MissingParamsFilledFromSiblings ==
    PartialWrite =>
        /\ Len(posts) = 1
        /\ \A p \in required_params(CalledCommand.params) :
              /\ p \in DOMAIN posts[1].body
              /\ p \notin DOMAIN FinalParams => posts[1].body[p] = SiblingValue(p)

(* C15 amended: execute_command fills in nothing. A call that supplies
   only some of the required parameters raises the missing-parameters
   error and posts nothing; a call that posts hands over exactly params
   overridden by kwargs, which then holds every required parameter. *)
C15_NothingFilledIn ==
    /\ PartialWrite =>
          /\ wpc = "raised"
          /\ wexc.msg = "Missing required parameters"
          /\ posts = <<>>
    /\ Len(posts) = 1 =>
          /\ posts[1].body = FinalParams
          /\ required_params(CalledCommand.params) \subseteq DOMAIN wargs.params
                                                        \cup DOMAIN wargs.kwargs

C15_Witness ==
    /\ PartialWrite
    /\ wargs.command_name = "setCurve"
    /\ DOMAIN FinalParams = {"slope"}
    /\ SiblingValue("shift") = Num(0)
    /\ wpc = "raised"

\* The call names a command that exists, is executable and has a uri.
CommandCallable ==
    /\ wpc # "idle"
    /\ wargs.command_name \in DOMAIN wfeature.commands
    /\ CalledCommand.is_executable = Bool(TRUE)
    /\ CalledCommand.uri # Str("")

\* The parameters the called command declares as required that the caller
\* passed neither in params nor as keyword argument.
Unsupplied ==
    {p \in DOMAIN CalledCommand.params.m :
        CalledCommand.params.m[p].m["required"] = Bool(TRUE)}
      \ (DOMAIN wargs.params \cup DOMAIN wargs.kwargs)

(* C16: when at least one required parameter is not supplied, the write
   fails with the missing-required-parameters error, which names every
   missing parameter and no other, whatever subset is missing. *)
C16_MissingParametersAllNamed ==
    (CommandCallable /\ Unsupplied # {}) =>
        /\ wpc = "raised"
        /\ wexc.msg = "Missing required parameters"
        /\ wexc.names = Unsupplied
        /\ posts = <<>>

C16_Witness ==
    /\ CommandCallable
    /\ Unsupplied = {"slope", "shift"}
    /\ "mode" \in DOMAIN wargs.kwargs
    /\ wexc.names = {"slope", "shift"}

\* The numeric parameters the call supplies, with their specs.
NumericSupplied ==
    {p \in DOMAIN FinalParams \cap DOMAIN CalledCommand.params.m :
        FinalParams[p].t = "num" /\ "stepping" \in DOMAIN CalledCommand.params.m[p].m}

\* v (in tenths) lies in the range of parameter p and on its step grid,
\* in exact arithmetic.
InRangeOnGrid(p) ==
    LET spec == CalledCommand.params.m[p].m
        v == FinalParams[p].n
    IN  /\ spec["min"].n <= v
        /\ v <= spec["max"].n
        /\ \E k \in 0..((spec["max"].n - spec["min"].n) \div spec["stepping"].n) :
              v = spec["min"].n + k * spec["stepping"].n

\* The other parameters the call supplies have no constraints.
OnlyNumericConstraints ==
    \A p \in (DOMAIN FinalParams \cap DOMAIN CalledCommand.params.m) \ NumericSupplied :
        DOMAIN CalledCommand.params.m[p].m \subseteq {"required", "type"}

(* C17: a numeric value is accepted exactly when it lies between min and
   max and v - min is an integer multiple of step, the multiple taken in
   exact arithmetic: a rounding error of the binary quotient never rejects
   an aligned value, and a value in range but off the grid fails with the
   step-alignment error. *)
C17_NumericAcceptedIffInRangeOnGrid ==
    (CommandCallable /\ Unsupplied = {} /\ OnlyNumericConstraints) =>
        /\ Len(posts) = 1 <=> (\A p \in NumericSupplied : InRangeOnGrid(p))
        /\ \A p \in NumericSupplied :
              (/\ \A q \in NumericSupplied \ {p} : InRangeOnGrid(q)
               /\ ~InRangeOnGrid(p)
               /\ CalledCommand.params.m[p].m["min"].n <= FinalParams[p].n
               /\ FinalParams[p].n <= CalledCommand.params.m[p].m["max"].n)
                  => /\ wpc = "raised"
                     /\ wexc = Error("ValueError", "does not align with step", {p})

\* 0.3 with min 0, max 1, step 0.1 passes, although (0.3 - 0) / 0.1 is not
\* 3 in binary floating point.
C17_Witness ==
    /\ wargs.command_name = "set"
    /\ wargs.kwargs = ("q" :> Num(3))
    /\ quotient_error(3, 0, 1) # 0
    /\ wpc = "posted"

\* The constraints of its own spec that the value of parameter p violates,
\* each under the text the error gives it.
Violated(p) ==
    LET spec == CalledCommand.params.m[p].m
        v == FinalParams[p]
        Has(c) == c \in DOMAIN spec
    IN  {c \in {"is less than the minimum", "is greater than the maximum",
                "does not align with step", "is shorter than minLength",
                "is longer than maxLength", "does not match pattern",
                "is not one of the options"} :
            \/ c = "is less than the minimum"
                    /\ v.t = "num" /\ Has("min") /\ v.n < spec["min"].n
            \/ c = "is greater than the maximum"
                    /\ v.t = "num" /\ Has("max") /\ v.n > spec["max"].n
            \/ c = "does not align with step"
                    /\ v.t = "num" /\ Has("stepping") /\ Has("min")
                    /\ (v.n - spec["min"].n) % spec["stepping"].n # 0
            \/ c = "is shorter than minLength"
                    /\ v.t = "str" /\ Has("minLength") /\ Len(v.s) < spec["minLength"].n
            \/ c = "is longer than maxLength"
                    /\ v.t = "str" /\ Has("maxLength") /\ Len(v.s) > spec["maxLength"].n
            \/ c = "does not match pattern"
                    /\ v.t = "str" /\ Has("pattern")
                    /\ ~pattern_matches(spec["pattern"].s, v.s)
            \/ c = "is not one of the options"
                    /\ Has("options")
                    /\ v \notin {spec["options"].items[i] : i \in DOMAIN spec["options"].items}}

\* The parameters of the final map that the called command declares.
Declared == DOMAIN FinalParams \cap DOMAIN CalledCommand.params.m

(* C18: a write is accepted only if every parameter of the final map
   satisfies all constraints of its own spec (range and step, length,
   pattern, options); any violation raises an error that names an
   offending parameter and a constraint that parameter violates. *)
C18_EveryParameterValidated ==
    (CommandCallable /\ Unsupplied = {}) =>
        /\ Len(posts) = 1 => \A p \in Declared : Violated(p) = {}
        /\ (\E p \in Declared : Violated(p) # {}) =>
              /\ wpc = "raised"
              /\ posts = <<>>
              /\ \E p \in Declared : wexc.names = {p} /\ wexc.msg \in Violated(p)

\* A name that matches the pattern but is too long, passed in params, next
\* to a valid program passed as keyword argument.
C18_Witness ==
    /\ wargs.command_name = "setName"
    /\ wargs.params = ("name" :> Str("abcde"))
    /\ wargs.kwargs = ("program" :> Str("eco"))
    /\ wexc = Error("ValueError", "is longer than maxLength", {"name"})

----------------------------------------------------------------------------
(* Claims on update_device *)

\* The complete feature sets a Device can hold: none, or all features of
\* one response.
CompleteSets ==
    {<<>>} \cup {get_features(ServedFeatures(v, oe)) : v \in 1..MaxVersion, oe \in BOOLEAN}

(* C19: update_device returns a new Device with the identity of the one
   passed in and the fetched features; the Device passed in keeps the
   features it had; a reader going through the features of a Device it
   holds, while updates run, sees features of one complete set only. *)
C19_UpdateReturnsNewDeviceNoTornReads ==
    /\ \A t \in Tasks : tasks[t].pc = "done" =>
          /\ tasks[t].result # tasks[t].dev
          /\ heap[tasks[t].result] = [tasks[t].passed EXCEPT !.features = tasks[t].fetched]
          /\ \E v \in 1..MaxVersion :
                tasks[t].fetched = get_features(ServedFeatures(v, tasks[t].only_enabled))
    /\ \A t \in Tasks : tasks[t].pc # "idle" => heap[tasks[t].dev] = tasks[t].passed
    /\ reader.ref # 0 =>
          \E S \in CompleteSets :
              /\ reader.pos <= Len(S)
              /\ reader.seen = SubSeq(S, 1, reader.pos)

\* A reader holds the Device of a first update (version 1) and has read
\* all its features, while a second update was called with that Device and
\* returned a Device with the features of version 2.
C19_Witness ==
    /\ reader.ref = 2
    /\ reader.pos = 3
    /\ reader.seen = get_features(ServedFeatures(1, FALSE))
    /\ \E t \in Tasks :
          /\ tasks[t].pc = "done"
          /\ tasks[t].dev = 2
          /\ tasks[t].result = 3
    /\ heap[3].features = get_features(ServedFeatures(2, TRUE))

----------------------------------------------------------------------------
(* Claims on the mock client *)

\* The records of the fixture, in its order.
FixtureList == Get(mdata, "data", [items |-> <<>>]).items

\* A filter on names was requested: feature_names is a non-empty list.
NamesRequested == margs.feature_names.t = "list" /\ margs.feature_names.items # <<>>

\* Record i of the fixture passes the requested filters.
Passes(i) ==
    /\ margs.only_enabled =>
          ("isEnabled" \in DOMAIN FixtureList[i] /\ FixtureList[i]["isEnabled"] = Bool(TRUE))
    /\ NamesRequested =>
          \E j \in DOMAIN margs.feature_names.items :
              margs.feature_names.items[j] = FixtureList[i]["feature"]

\* The index of the k-th record of the fixture that passes.
KthPassing(k) ==
    CHOOSE i \in DOMAIN FixtureList :
        Passes(i) /\ Cardinality({j \in 1..i : Passes(j)}) = k

(* C20: MockViClient.get_features returns exactly the features of the
   fixture that pass the requested filters, in fixture order: the enabled
   ones with only_enabled, the ones with a requested name with
   feature_names, both with both, all with neither. *)
C20_MockReturnsFilteredInFixtureOrder ==
    margs.called =>
        /\ Len(mret) = Cardinality({i \in DOMAIN FixtureList : Passes(i)})
        /\ \A k \in DOMAIN mret : mret[k] = Feature_from_api(FixtureList[KthPassing(k)])
        /\ margs.only_enabled => \A k \in DOMAIN mret : mret[k].is_enabled = Bool(TRUE)
        /\ NamesRequested => \A k \in DOMAIN mret :
              \E j \in DOMAIN margs.feature_names.items :
                  margs.feature_names.items[j] = mret[k].name
        /\ (~margs.only_enabled /\ ~NamesRequested) => Len(mret) = Len(FixtureList)

\* Both filters at once, on a fixture where each of them alone keeps more.
C20_Witness ==
    /\ margs.called
    /\ margs.only_enabled
    /\ margs.feature_names = List(<<Str("heating.burner")>>)
    /\ Len(FixtureList) = 3
    /\ FixtureList[1]["feature"] = Str("heating.curve")
    /\ "isEnabled" \in DOMAIN FixtureList[1] /\ FixtureList[1]["isEnabled"] = Bool(TRUE)
    /\ FixtureList[2]["feature"] = Str("heating.burner")
    /\ "isEnabled" \notin DOMAIN FixtureList[2]
    /\ FixtureList[3]["feature"] = Str("heating.burner")
    /\ "isEnabled" \in DOMAIN FixtureList[3] /\ FixtureList[3]["isEnabled"] = Bool(TRUE)
    /\ Len(mret) = 1

----------------------------------------------------------------------------
(* Claims on the Device *)

\* The positions of the device's features named as the last call asked.
NamedAsAsked == {i \in 1..Len(dev.features) : dev.features[i].name = Str(dcall.name)}

(* C21: Device.get_feature(name) returns a Feature of the device's features
   whose name is `name` whenever there is one, and None when there is none;
   it never returns a Feature with another name. *)
C21_GetFeatureReturnsNamedFeatureOrNone ==
    dcall.op = "get_feature" =>
        IF NamedAsAsked = {}
        THEN dcall.result = Null
        ELSE \E i \in NamedAsAsked : dcall.result = dev.features[i]

\* A lookup that found the second feature of a device whose first feature
\* has another name.
C21_Witness ==
    /\ dcall.op = "get_feature"
    /\ Len(dev.features) = 2
    /\ dev.features[1].name # Str(dcall.name)
    /\ dcall.result = dev.features[2]
    /\ dcall.result # Null

----------------------------------------------------------------------------
(* Claims on the frame of expand() *)

(* C22: expand() has no side effect on the Feature it is called on: after
   the call the Feature's name, its properties (every entry, nested entry
   maps included), its flags and its commands are what from_api built. *)
C22_ExpandLeavesItsInputAlone ==
    pc \in {"expanded", "read"} => feature = Feature_from_api(data)

\* An expansion that handed an entry map of the parent, unit and all, to a
\* sub-Feature as its properties, without copying it.
C22_Witness ==
    /\ pc = "expanded"
    /\ Len(flat) = 2
    /\ \E k \in DOMAIN feature.properties.m, i \in 1..Len(flat) :
          /\ new_props_is_val_obj(feature.properties.m[k])
          /\ HasKey(feature.properties.m[k], "unit")
          /\ flat[i].properties = feature.properties.m[k]
    /\ \E k \in DOMAIN feature.properties.m :
          /\ new_props_is_val_obj(feature.properties.m[k])
          /\ ~HasKey(feature.properties.m[k], "unit")

----------------------------------------------------------------------------
(* Claims on the CLI context *)

\* An id that was not given: None or empty, what `not x` tests.
Missing(v) == ~Truthy(v)

AllIdsSupplied ==
    /\ ~Missing(cargs.installation_id)
    /\ ~Missing(cargs.gateway_serial)
    /\ ~Missing(cargs.device_id)

\* How often the client call `op` has been made.
CallsOf(op) == Cardinality({i \in 1..Len(crequests) : crequests[i][1] = op})

\* The ids discovery has to arrive at.
ExpectedInst ==
    IF Missing(cargs.installation_id) THEN cworld.gateways[1].installation_id
    ELSE cargs.installation_id

ExpectedGw ==
    IF Missing(cargs.gateway_serial) THEN cworld.gateways[1].serial
    ELSE cargs.gateway_serial

ExpectedDev ==
    IF ~Missing(cargs.device_id) THEN cargs.device_id
    ELSE IF \E i \in DOMAIN cworld.devices : cworld.devices[i] = "0" THEN Str("0")
    ELSE Str(cworld.devices[1])

\* Without discovery: no request, no failure, the ids as given (in mock mode
\* the defaults for those not given).
SetupWithoutDiscovery ==
    /\ crequests = <<>>
    /\ cpc \in {"start", "yielded"}
    /\ cpc = "yielded" =>
          IF Truthy(cargs.mock_device)
          THEN cctx = CLIContext(TRUE,
                    IF Missing(cargs.installation_id) THEN Str("99999")
                    ELSE cargs.installation_id,
                    IF Missing(cargs.gateway_serial) THEN Str("MOCK_GATEWAY")
                    ELSE cargs.gateway_serial,
                    IF Missing(cargs.device_id) THEN Str("0") ELSE cargs.device_id)
          ELSE cctx = CLIContext(FALSE, cargs.installation_id, cargs.gateway_serial,
                                 cargs.device_id)

\* With discovery, once setup has left its start.
SetupWithDiscovery ==
    /\ CallsOf("get_gateways") = 1
    /\ CallsOf("get_devices") <= 1
    /\ CallsOf("get_devices") = 1 => Missing(cargs.device_id)
    /\ \A i \in 1..Len(crequests) :
          crequests[i][1] = "get_devices" =>
              crequests[i] = <<"get_devices", ExpectedInst, ExpectedGw>>
    /\ cpc = "yielded" =>
          /\ cworld.gateways # <<>>
          /\ Missing(cargs.device_id) =>
                CallsOf("get_devices") = 1 /\ cworld.devices # <<>>
          /\ cctx = CLIContext(FALSE, ExpectedInst, ExpectedGw, ExpectedDev)
    /\ (cworld.gateways = <<>> /\ cpc # "get_gateways") => cpc = "raised"
    /\ (CallsOf("get_devices") = 1 /\ cworld.devices = <<>> /\ cpc # "get_devices")
          => cpc = "raised"

ContextSetup(quiet) ==
    /\ quiet => SetupWithoutDiscovery
    /\ (~quiet /\ cpc # "start") => SetupWithDiscovery

(* C23 as stated: in mock mode, or when installation id, gateway serial and
   device id are all supplied, no discovery request is made and the
   supplied ids (or the mock defaults) are used; otherwise get_gateways is
   called exactly once, the missing gateway serial and installation id come
   from the first gateway, get_devices is called only when the device id
   is missing, device "0" is chosen if present, else the first device, and
   with no gateways or no devices the setup fails. *)
C23_DiscoveryWheneverAnIdIsMissing ==
    ContextSetup(Truthy(cargs.mock_device) \/ AllIdsSupplied)

(* C23 amended: the same, for a setup that is asked to discover (discover
   = True, the default). A setup called with discover = False makes no
   discovery request either and yields the ids as given, missing ones as
   None. *)
C23_DiscoveryOnlyWhenAsked ==
    ContextSetup(Truthy(cargs.mock_device) \/ AllIdsSupplied \/ ~cargs.discover)

\* A discovery that took gateway serial and installation id from the first
\* of two gateways and chose device "0", which was not the first device.
C23_Witness ==
    /\ cpc = "yielded"
    /\ crequests = <<<<"get_gateways">>, <<"get_devices", Str("200"), Str("GW456")>>>>
    /\ cworld.devices = <<"1", "0">>
    /\ cctx = CLIContext(FALSE, Str("200"), Str("GW456"), Str("0"))

----------------------------------------------------------------------------
(* Claims on the order of the checks of execute_command *)

\* The call raised exactly the error e and nothing was posted.
RaisedOnly(e) == wpc = "raised" /\ wexc = e /\ posts = <<>>

(* C24: execute_command checks in a fixed order and reports the first
   failing check only: unknown command, then not executable, then missing
   uri, then the parameters. A command that is both not executable and
   without uri is reported as not executable, and a parameter error is
   reported only for a command that passes the first three checks. *)
C24_FirstFailingCheckIsReported ==
    wpc # "idle" =>
        IF wargs.command_name \notin DOMAIN wfeature.commands
        THEN RaisedOnly(Error("ValueError", "not found in feature", {}))
        ELSE IF CalledCommand.is_executable # Bool(TRUE)
        THEN RaisedOnly(Error("ValueError",
                              "is currently not executable (isExecutable=False).", {}))
        ELSE IF CalledCommand.uri = Str("")
        THEN RaisedOnly(Error("ValueError", "has no URI definition.", {}))
        ELSE IF Command_validate(CalledCommand, FinalParams) # NoError
        THEN RaisedOnly(Command_validate(CalledCommand, FinalParams))
        ELSE Len(posts) = 1

\* A call of a command that is not executable, has no uri and lacks its
\* required parameters: reported as not executable.
C24_Witness ==
    /\ wpc = "raised"
    /\ wargs.command_name = "setCurve"
    /\ CalledCommand.is_executable = Bool(FALSE)
    /\ CalledCommand.uri = Str("")
    /\ Command_validate(CalledCommand, FinalParams) # NoError
    /\ wexc.msg = "is currently not executable (isExecutable=False)."

----------------------------------------------------------------------------
(* Claims on the CLI commands set and exec *)

\* The feature the command works on: the first one get_features returned.
FetchedFeature == xserved[1]

\* The cases in which the claim says nothing is written.
NothingToWrite ==
    \/ xserved = <<>>
    \/ FetchedFeature.control = Null
    \/ /\ xargs.cmd = "exec"
       /\ FetchedFeature.control.command_name # xargs.command_name

\* cmd_exec cannot parse its parameter arguments: one that is neither a
\* JSON document nor key=value.
Unparsable ==
    /\ xargs.cmd = "exec"
    /\ xargs.params # <<>>
    /\ parse_cli_params(xargs.params).raised

\* A target value can be determined: `set` has its value argument; `exec`
\* has a value under the control's parameter name, or one single argument
\* without "=".
TargetKnown ==
    \/ xargs.cmd = "set"
    \/ /\ FetchedFeature.control.param_name \in DOMAIN xparams
       /\ xparams[FetchedFeature.control.param_name] # Null
    \/ /\ Len(xargs.params) = 1
       /\ ~Contains(xargs.params[1], "=")

\* Exactly one write has been dispatched, of the kind the claim names.
OneWriteDispatched ==
    /\ Len(xwrites) = 1
    /\ IF TargetKnown
       THEN /\ xwrites[1].kind = "set_feature"
            /\ xwrites[1].feature = FetchedFeature.name
       ELSE xwrites[1] = RawPost(FetchedFeature.control.uri, xparams)

(* C25 as stated: `set` and `exec` dispatch no write when the feature is
   not found, when it has no control, or (exec) when the command name given
   differs from the control's; otherwise they dispatch exactly one write,
   set_feature when a target value can be determined from the parameters,
   else one raw POST to the control's uri. *)
C25_OneWriteUnlessNotFoundReadOnlyOrOtherCommand ==
    /\ Len(xwrites) <= 1
    /\ NothingToWrite => xwrites = <<>>
    /\ (~NothingToWrite /\ xpc = "done") => OneWriteDispatched

(* C25 amended: no write is dispatched either when `exec` cannot parse its
   parameters (it returns before it looks the feature up) or when the
   context setup or the fetch of the feature fails; in every other case
   exactly one write is dispatched, as stated. *)
C25_OneWriteUnlessRejectedOrFailed ==
    /\ Len(xwrites) <= 1
    /\ (NothingToWrite \/ Unparsable) => xwrites = <<>>
    /\ (xpc = "failed" /\ xwrites # <<>>) => OneWriteDispatched
    /\ (~NothingToWrite /\ ~Unparsable /\ xpc \in {"write", "done"})
          => OneWriteDispatched

\* An exec whose parameters do not name the control's parameter: one raw
\* POST to the control's uri with the parsed parameters.
C25_Witness ==
    /\ xpc = "done"
    /\ xargs.cmd = "exec"
    /\ xargs.params = <<"shift=5">>
    /\ xserved = <<SlopeFeature>>
    /\ xwrites = <<RawPost("uri", "shift" :> Num(50))>>

----------------------------------------------------------------------------
(* Claims on repeated expansion *)

\* expand() of the Feature f gives f alone, whatever order its properties
\* are iterated in.
IsFlat(f) ==
    \A order \in Orders(DOMAIN f.properties.m) : expand(f, order) = <<f>>

(* C26: expansion is idempotent: every Feature in the output of expand()
   is flat, that is, expanding it again yields exactly that one Feature,
   whatever the shape of the property entry it was made from (entry maps
   with keys besides value, unit and type included). *)
C26_ExpandedFeaturesAreFlat ==
    pc \in {"expanded", "read"} => \A i \in 1..Len(flat) : IsFlat(flat[i])

----------------------------------------------------------------------------
(* Claims on sequences of execute_command calls *)

\* The parameters a call of the log was given: the caller's dict, if any,
\* overridden by the keyword arguments.
GivenParams(c) ==
    [k \in DOMAIN c.passed \cup DOMAIN c.kwargs |->
        IF k \in DOMAIN c.kwargs THEN c.kwargs[k] ELSE c.passed[k]]

\* The required parameters of setCurve.
RequiredOfSetCurve ==
    {p \in DOMAIN CallFeature.commands["setCurve"].params.m :
        CallFeature.commands["setCurve"].params.m[p].m["required"] = Bool(TRUE)}

(* C27: over any sequence of execute_command calls the caller's params dict
   and the shared default params dict are never modified, and a parameter
   passed in one call never shows in what a later call that did not pass
   it validates or dispatches; within one call a keyword argument
   overrides the entry of params with the same name. *)
C27_CallsShareNoParameters ==
    /\ kdefault = <<>>
    /\ \A i \in 1..Len(klog) :
          /\ ~klog[i].by_default => klog[i].passed = kcaller
          /\ klog[i].posted # <<>> => klog[i].posted[1].body = GivenParams(klog[i])
          /\ klog[i].error.msg = "Missing required parameters"
                => klog[i].error.names = RequiredOfSetCurve \ DOMAIN GivenParams(klog[i])
          /\ RequiredOfSetCurve \ DOMAIN GivenParams(klog[i]) # {}
                => klog[i].error.msg = "Missing required parameters"

\* Two calls: the first passes slope and shift as keyword arguments and is
\* dispatched; the second passes slope alone, overriding the caller's own
\* slope, and is refused for the missing shift.
C27_Witness ==
    /\ Len(klog) = 2
    /\ klog[1].by_default
    /\ DOMAIN klog[1].kwargs = {"slope", "shift"}
    /\ klog[1].posted # <<>>
    /\ DOMAIN klog[2].kwargs = {"slope"}
    /\ DOMAIN klog[2].passed = {"slope"}
    /\ klog[2].passed["slope"] # klog[2].kwargs["slope"]
    /\ klog[2].error.names = {"shift"}

----------------------------------------------------------------------------
(* Claims on the mock client and the request of the real client *)

(* C28: MockViClient.get_features mimics the filter the real client asks
   the server for: with only_enabled the real request sets skipDisabled and
   skipNotReady, and the mock returns no feature that is disabled and no
   feature that is not ready. *)
C28_MockSkipsDisabledAndNotReady ==
    (margs.called /\ margs.only_enabled) =>
        /\ LET payload == get_features_payload(margs.only_enabled, margs.feature_names)
           IN  /\ payload.m["skipDisabled"] = Bool(TRUE)
               /\ payload.m["skipNotReady"] = Bool(TRUE)
        /\ \A i \in 1..Len(mret) :
              /\ mret[i].is_enabled = Bool(TRUE)
              /\ mret[i].is_ready = Bool(TRUE)

----------------------------------------------------------------------------
(* Claims on the flat features of a Device *)

\* The names of the device's records are pairwise distinct.
DistinctRecordNames ==
    \A i, j \in 1..Len(dev.features) :
        i # j => dev.features[i].name # dev.features[j].name

\* The Features the i-th record of the device expands to.
FlatOfRecord(i) ==
    expand(dev.features[i], sorted(DOMAIN dev.features[i].properties.m))

(* C29: for a device whose raw records have pairwise distinct names, no
   Feature in features_flat that comes from one record has the name of a
   Feature that comes from another record, so an index of the flat
   features by name loses no Feature. *)
C29_FlatNamesDistinctAcrossRecords ==
    (dcall.op = "features_flat" /\ DistinctRecordNames) =>
        /\ dcall.result = features_flat_from(dev.features, 1)
        /\ \A i, j \in 1..Len(dev.features) :
              i # j =>
                 \A a \in 1..Len(FlatOfRecord(i)), b \in 1..Len(FlatOfRecord(j)) :
                    FlatOfRecord(i)[a].name # FlatOfRecord(j)[b].name
        /\ Cardinality({dcall.result[n].name : n \in 1..Len(dcall.result)})
              = Len(dcall.result)

----------------------------------------------------------------------------
(* Claims on get_full_installation_status *)

\* The gateway belongs to the installation asked for.
OwnGateway(g) == g.installation_id = sargs.installation_id

\* The Devices of one gateway, each with the features served for it.
DevicesOfGateway(g) ==
    [i \in DOMAIN sworld.devices[g.serial.s] |->
        replace(Device_from_api(("id" :> Str(sworld.devices[g.serial.s][i])) @@ DeviceData,
                                g.serial, sargs.installation_id),
                get_features(StatusFeatures(Str(sworld.devices[g.serial.s][i]),
                                            sargs.only_enabled)))]

\* The Devices of the installation's gateways from the i-th gateway on, in
\* discovery order.
RECURSIVE DevicesFromGateway(_)
DevicesFromGateway(i) ==
    IF i > Len(sworld.gateways) THEN <<>>
    ELSE (IF OwnGateway(sworld.gateways[i]) THEN DevicesOfGateway(sworld.gateways[i])
          ELSE <<>>) \o DevicesFromGateway(i + 1)

(* C30: get_full_installation_status(installation_id) returns one Device
   for every device of every gateway of that installation, in gateway then
   device order, each with the features fetched for it; gateways of other
   installations are not queried under this installation id; and when a
   fetch fails the call raises and returns no partial list. *)
C30_StatusCoversOwnGatewaysOnly ==
    /\ \A n \in 1..Len(sreq) :
          sreq[n][1] \in {"get_devices", "get_features"} =>
              \E i \in 1..Len(sworld.gateways) :
                  /\ sworld.gateways[i].serial = sreq[n][3]
                  /\ OwnGateway(sworld.gateways[i])
    /\ sloop.pc = "returned" => sret = List(DevicesFromGateway(1))
    /\ sloop.pc # "returned" => sret = NoStatus

====
